---- MODULE Spec2Model ----
(***************************************************************************)
(* A model of AIrsenal's squad optimisation engine:                        *)
(*   - the strategy tree search of scripts/fill_transfersuggestion_table   *)
(*     (worker processes sharing one queue, one json file per leaf, the    *)
(*     leaf-count termination test, the coordinator that joins the workers *)
(*     and selects the best strategy);                                     *)
(*   - the Squad class of framework/squad.py (add_player / remove_player   *)
(*     and the four constraint checks).                                    *)
(***************************************************************************)
EXTENDS Integers, Sequences, FiniteSets, TLC

(***************************************************************************)
(* Bounds of the model.                                                    *)
(***************************************************************************)
MaxProcs == 2
MaxWeeks == 3
MaxLoad == 30
MaxCrashes == 1
MaxBudget == 5
MaxDebt == 1
MaxArg == 3
MaxCountWeeks == 5
MaxHorizon == 2
MaxPoints == 5
MaxPasses == 2
MaxSubs == 1
MaxCalls == 2
MaxTransfers == 2
BuildBudgets == {0, 10, 17, 19, 22}

VARIABLES
    \* ---- run_optimization / optimize -------------------------------------
    num_thread,          \* number of worker processes started
    num_weeks,           \* len(gameweek_range); the gameweeks are 1..num_weeks
    cards_allowed,       \* subset of {"wildcard","free_hit","triple_captain","bench_boost"}
    num_free_transfers,  \* free transfers available at the first gameweek
    gain,                \* prediction data: points a transferred-in player adds
    queue,               \* the shared work queue (FIFO), a sequence of items
    pc,                  \* pc[w]: where worker w is in optimize's loop
    status,              \* status[w]: the tuple worker w took off the queue
    files,               \* OUTPUT_DIR: file name (the sid) -> strat_dict written
    cpc,                 \* where run_optimization (the coordinator) is
    best_strategy,       \* what find_best_strat_from_json returned
    table,               \* what fill_suggestion_table was given
    crashes,             \* number of workers that died so far
    \* ---- Squad (framework/squad.py) --------------------------------------
    players,             \* self.players: list of CandidatePlayers
    budget,              \* self.budget
    num_position,        \* self.num_position
    last,                \* the last add_player / remove_player call and its result
    input_ids,           \* the player ids the calls of this run are made with
    budget_checked,      \* every add_player so far had check_budget=True
    team_checked,        \* every add_player so far had check_team=True
    sold,                \* the player the last remove_player removed, and its arguments
    \* ---- the tree of directive paths, level by level ---------------------
    frontier,            \* the items of one level of the tree
    level,               \* the depth of the nodes the items of frontier become
    \* ---- single calls of the functions of optimization_utils.py ----------
    call,                \* the last call made: function, arguments, outcome
    \* ---- apply_strategy (framework/optimization_utils.py) ----------------
    strat,               \* the argument: [dict: gameweek -> directive, hit: strat[1]]
    list_value_raises,   \* whether get_squad_value raises when given a list of ids
    baseline_dict,       \* the argument baseline_dict: None, or gameweek -> baseline total
    apc,                 \* where apply_strategy is: "idle", "loop", "returned", "raised"
    igw,                 \* the gameweek the loop is about to process
    new_squad,           \* the local new_squad
    squad_before_free_hit, \* the local squad_before_free_hit
    rp,                  \* the local rp (removed players), unbound at first
    ap,                  \* the local ap (added players), unbound at first
    strategy_output,     \* the local strategy_output
    applied,             \* per gameweek processed: the squad it started from and ended with
    returned,            \* what apply_strategy returned
    \* ---- the transfer searches on a squad of 15 (optimization_utils.py) ---
    env,                 \* the data of a call: predicted points, prices, squad, chips
    outcome,               \* the last call of a search or of get_expected_points
    trial,               \* make_random_transfers: where one trial is, and its locals
    build                \* make_new_squad: where one trial is, and its locals

inputs == <<num_thread, num_weeks, cards_allowed, num_free_transfers, gain>>

runVars == <<queue, pc, status, files, cpc, best_strategy, table, crashes>>

treeVars == <<inputs, runVars>>

squadVars == <<players, budget, num_position, last, input_ids,
               budget_checked, team_checked, sold>>

levelVars == <<frontier, level>>

callVars == <<call>>

applyVars == <<strat, list_value_raises, baseline_dict, apc, igw, new_squad, squad_before_free_hit,
               rp, ap, strategy_output, applied, returned>>

searchVars == <<env, outcome, trial, build>>

vars == <<treeVars, squadVars, levelVars, callVars, applyVars, searchVars>>

\* what the actions of one part of the model leave alone: the other parts
notTree == <<squadVars, levelVars, callVars, applyVars, searchVars>>
notSquad == <<treeVars, levelVars, callVars, applyVars, searchVars>>
notLevels == <<treeVars, squadVars, callVars, applyVars, searchVars>>
notCalls == <<treeVars, squadVars, levelVars, applyVars, searchVars>>
notApply == <<treeVars, squadVars, levelVars, callVars, searchVars>>
notSearch == <<treeVars, squadVars, levelVars, callVars, applyVars>>

Procs == 1..MaxProcs
Workers == 1..num_thread

AllCards == {"wildcard", "free_hit", "triple_captain", "bench_boost"}

(***************************************************************************)
(* Transfer directives.  The code uses an int 0,1,2 or a string "W", "F",  *)
(* "T0".."T2", "B0".."B2"; here [c |-> letter, n |-> digit], with c = "N"  *)
(* for a plain int and n = 0 for "W" and "F".                              *)
(***************************************************************************)
Int_(n) == [c |-> "N", n |-> n]
Chip(c, n) == [c |-> c, n |-> n]
WildcardD == [c |-> "W", n |-> 0]
FreeHitD == [c |-> "F", n |-> 0]

isint(d) == d.c = "N"
startswith(d, letter) == d.c = letter

\* a test for a chip already played that always says no
letter_never_in_sid(letter, sid) == FALSE

\* `letter in sid`: sid is the dash-joined string of the directives so far;
\* a letter occurs in it iff some directive of the path starts with it.
letter_in_sid(letter, sid) == \E i \in 1..Len(sid) : sid[i].c = letter

Max(a, b) == IF a >= b THEN a ELSE b
Min(a, b) == IF a <= b THEN a ELSE b

\* How a call ends: `return value`, or raise RuntimeError(...), which
\* returns nothing.
Return(value) == [raised |-> FALSE, value |-> value]
RuntimeError == [raised |-> TRUE]

\* a two-character string "Bx" or "Tx"
is_chip_with_digit(num_transfers) ==
    (startswith(num_transfers, "B") \/ startswith(num_transfers, "T"))
    /\ num_transfers.n \in 0..9

\* a calc_points_hit that forgets max(0, ...): unused free transfers pay back
calc_points_hit_unclamped(num_transfers, free_transfers) ==
    IF num_transfers = WildcardD \/ num_transfers = FreeHitD THEN Return(0)
    ELSE IF isint(num_transfers) \/ is_chip_with_digit(num_transfers)
    THEN Return(4 * (num_transfers.n - free_transfers))
    ELSE RuntimeError

calc_points_hit(num_transfers, free_transfers) ==
    IF num_transfers = WildcardD \/ num_transfers = FreeHitD THEN Return(0)
    ELSE IF isint(num_transfers)
    THEN Return(Max(0, 4 * (num_transfers.n - free_transfers)))
    ELSE IF is_chip_with_digit(num_transfers)
    THEN Return(Max(0, 4 * (num_transfers.n - free_transfers)))
    ELSE RuntimeError

\* a calc_free_transfers that forgets min(2, ...): free transfers pile up
calc_free_transfers_uncapped(num_transfers, prev_free_transfers) ==
    IF num_transfers = WildcardD \/ num_transfers = FreeHitD THEN Return(1)
    ELSE IF isint(num_transfers) \/ is_chip_with_digit(num_transfers)
    THEN Return(Max(1, 1 + prev_free_transfers - num_transfers.n))
    ELSE RuntimeError

calc_free_transfers(num_transfers, prev_free_transfers) ==
    IF num_transfers = WildcardD \/ num_transfers = FreeHitD THEN Return(1)
    ELSE IF isint(num_transfers)
    THEN Return(Max(1, Min(2, 1 + prev_free_transfers - num_transfers.n)))
    ELSE IF is_chip_with_digit(num_transfers)
    THEN Return(Max(1, Min(2, 1 + prev_free_transfers - num_transfers.n)))
    ELSE RuntimeError

\* a count_expected_outputs that stops one week before the last
RECURSIVE count_expected_outputs_one_week_short(_, _, _, _, _, _)
count_expected_outputs_one_week_short(week0, max_week, can_play_wildcard, can_play_free_hit, can_play_triple_captain, can_play_bench_boost) ==
    LET week == week0 + 1
        int(b) == IF b THEN 1 ELSE 0
    IN  IF week >= max_week - 1
        THEN 3 + int(can_play_wildcard) + int(can_play_free_hit)
               + 3 * int(can_play_triple_captain) + 3 * int(can_play_bench_boost)
        ELSE 3 * count_expected_outputs_one_week_short(week, max_week,
                     can_play_wildcard, can_play_free_hit,
                     can_play_triple_captain, can_play_bench_boost)

RECURSIVE count_expected_outputs(_, _, _, _, _, _)
count_expected_outputs(week0, max_week, can_play_wildcard, can_play_free_hit, can_play_triple_captain, can_play_bench_boost) ==
    LET week == week0 + 1
        int(b) == IF b THEN 1 ELSE 0
        same == count_expected_outputs(week, max_week, can_play_wildcard,
                    can_play_free_hit, can_play_triple_captain, can_play_bench_boost)
    IN  IF week = max_week
        THEN 3 + int(can_play_wildcard) + int(can_play_free_hit)
               + 3 * int(can_play_triple_captain) + 3 * int(can_play_bench_boost)
        ELSE 3 * ( same
                   + (IF can_play_triple_captain
                      THEN count_expected_outputs(week, max_week, can_play_wildcard,
                               can_play_free_hit, FALSE, can_play_bench_boost)
                      ELSE 0)
                   + (IF can_play_bench_boost
                      THEN count_expected_outputs(week, max_week, can_play_wildcard,
                               can_play_free_hit, can_play_triple_captain, FALSE)
                      ELSE 0) )
             + (IF can_play_wildcard
                THEN count_expected_outputs(week, max_week, FALSE, can_play_free_hit,
                         can_play_triple_captain, can_play_bench_boost)
                ELSE 0)
             + (IF can_play_free_hit
                THEN count_expected_outputs(week, max_week, can_play_wildcard, FALSE,
                         can_play_triple_captain, can_play_bench_boost)
                ELSE 0)

\* the expected count is computed without the triple captain flag
expected_num_without_triple_captain(n, cards) ==
    count_expected_outputs(0, n, "wildcard" \in cards, "free_hit" \in cards,
                           FALSE, "bench_boost" \in cards)

expected_num(n, cards) ==
    count_expected_outputs(0, n, "wildcard" \in cards, "free_hit" \in cards,
                           "triple_captain" \in cards, "bench_boost" \in cards)

json_count == Cardinality(DOMAIN files)

is_finished == json_count = expected_num(num_weeks, cards_allowed)

(***************************************************************************)
(* Squads in the tree search.  The transfer searches are deterministic     *)
(* functions of (squad, remaining gameweeks, chip gameweek); a squad is    *)
(* modelled by the term that produced it: the sequence of transfer steps   *)
(* applied to the starting squad, the empty sequence.                      *)
(***************************************************************************)
starting_squad == << >>

Step(n, gw, tc, bb) == [n |-> n, gw |-> gw, tc |-> tc, bb |-> bb]

\* make_optimum_single_transfer / make_optimum_double_transfer: the squad
\* returned is the best squad outcome, with n players swapped.
make_optimum_transfer(squad, n, gw, tc, bb) == Append(squad, Step(n, gw, tc, bb))

\* the players_out / players_in lists the searches return (n ids each)
transfer_ids(squad, n, gw, tc, bb, io) ==
    [k \in 1..n |-> [io |-> io, k |-> k, step |-> Step(n, gw, tc, bb), squad |-> squad]]

RECURSIVE num_transferred(_)
num_transferred(squad) ==
    IF squad = << >> THEN 0 ELSE squad[1].n + num_transferred(Tail(squad))

\* Squad.get_expected_points(gw, tag, bench_boost, triple_captain) on the
\* prediction data of the run: every transferred-in player changes the
\* squad's score by `gain`, the captain is worth 5 more when tripled and
\* the bench is worth 7.
get_expected_points(squad, gw, triple_captain, bench_boost) ==
    20 + gw + gain * num_transferred(squad)
       + (IF triple_captain THEN 5 ELSE 0) + (IF bench_boost THEN 7 ELSE 0)

\* make_best_transfers returns <<squad, transfer_dict, points>>.
\* For "W"/"F" the new squad is built (players_in is its roster) but the
\* squad returned, and scored, is the one passed in.  A directive that is
\* none of 0, 1, 2 (with or without "T"/"B"), "W", "F" raises RuntimeError.
make_best_transfers(num_transfers, squad, gw) ==
    LET tc == startswith(num_transfers, "T")
        bb == startswith(num_transfers, "B")
        n  == num_transfers.n
        known == \/ num_transfers = WildcardD \/ num_transfers = FreeHitD
                 \/ (isint(num_transfers) \/ tc \/ bb) /\ n \in {0, 1, 2}
        ret_squad ==
            IF num_transfers.c \in {"W", "F"} \/ n = 0 THEN squad
            ELSE make_optimum_transfer(squad, n, gw, tc, bb)
        transfer_dict ==
            IF num_transfers.c \in {"W", "F"}
            THEN [in  |-> <<[io |-> "new", card |-> num_transfers.c, gw |-> gw, squad |-> squad]>>,
                  out |-> <<[io |-> "all", squad |-> squad]>>]
            ELSE [in  |-> transfer_ids(squad, n, gw, tc, bb, "in"),
                  out |-> transfer_ids(squad, n, gw, tc, bb, "out")]
    IN  IF ~known THEN RuntimeError
        ELSE Return(<<ret_squad, transfer_dict,
                      get_expected_points(ret_squad, gw, tc, bb)>>)

(***************************************************************************)
(* strat_dict and the items on the queue.                                  *)
(***************************************************************************)
None == [none |-> TRUE]

\* a root record whose total starts at 1
strat_dict_total_from_one ==
    [total_score |-> 1, points_per_gw |-> << >>, players_in |-> << >>,
     players_out |-> << >>, cards_played |-> << >>]

empty_strat_dict ==
    [total_score |-> 0, points_per_gw |-> << >>, players_in |-> << >>,
     players_out |-> << >>, cards_played |-> << >>]

\* d[k] = v on a dict keyed by gameweek
dict_set(d, k, v) == [x \in (DOMAIN d) \cup {k} |-> IF x = k THEN v ELSE d[x]]

Item(num_transfers, free_transfers, squad, strat_dict, sid) ==
    [num_transfers |-> num_transfers, free_transfers |-> free_transfers,
     squad |-> squad, strat_dict |-> strat_dict, sid |-> sid, starting |-> FALSE]

\* (0, num_free_transfers, starting_squad, {}, "starting")
root_item ==
    [num_transfers |-> Int_(0), free_transfers |-> num_free_transfers,
     squad |-> starting_squad, strat_dict |-> << >>, sid |-> << >>, starting |-> TRUE]

no_status == [starting |-> FALSE, idle |-> TRUE]

\* a card name that takes a plain number of transfers for the wildcard
card_name_of_number_is_wildcard(num_transfers) ==
    CASE num_transfers.c = "T" -> "triple_captain"
      [] num_transfers.c = "B" -> "bench_boost"
      [] num_transfers.c = "F" -> "free_hit"
      [] OTHER -> "wildcard"

card_name(num_transfers) ==
    CASE num_transfers.c = "T" -> "triple_captain"
      [] num_transfers.c = "B" -> "bench_boost"
      [] num_transfers.c = "W" -> "wildcard"
      [] num_transfers.c = "F" -> "free_hit"
      [] OTHER -> "None"

\* a node_of that advances the free transfers first and computes the hit
\* with the carried count
node_of_carry_first(item) ==
    IF item.starting
    THEN [sid |-> << >>, depth |-> 0, free_transfers |-> item.free_transfers,
          squad |-> item.squad, new_squad |-> item.squad,
          strat_dict |-> empty_strat_dict]
    ELSE
      LET nt    == item.num_transfers
          sd    == item.strat_dict
          depth == Len(sd.points_per_gw)
          gw    == depth + 1
          zero  == nt.c \in {"N", "T", "B"} /\ nt.n = 0
          best  == make_best_transfers(nt, item.squad, gw).value
          points == IF zero THEN get_expected_points(item.squad, gw, FALSE, FALSE)
                    ELSE best[3] - calc_points_hit(nt, calc_free_transfers(nt, item.free_transfers).value).value
          tin   == IF zero THEN << >> ELSE best[2].in
          tout  == IF zero THEN << >> ELSE best[2].out
      IN [sid |-> Append(item.sid, nt), depth |-> depth + 1,
          free_transfers |-> calc_free_transfers(nt, item.free_transfers).value,
          squad |-> item.squad,
          new_squad |-> IF zero THEN item.squad ELSE best[1],
          strat_dict |->
             [total_score   |-> sd.total_score + points,
              points_per_gw |-> dict_set(sd.points_per_gw, gw, points),
              players_in    |-> dict_set(sd.players_in, gw, tin),
              players_out   |-> dict_set(sd.players_out, gw, tout),
              cards_played  |-> dict_set(sd.cards_played, gw, card_name(nt))]]

\* The node an item becomes once processed: the sid, the depth, the free
\* transfers carried on, the squad carried on and the strat_dict.
node_of(item) ==
    IF item.starting
    THEN [sid |-> << >>, depth |-> 0, free_transfers |-> item.free_transfers,
          squad |-> item.squad, new_squad |-> item.squad,
          strat_dict |-> empty_strat_dict]
    ELSE
      LET nt    == item.num_transfers
          sd    == item.strat_dict
          depth == Len(sd.points_per_gw)
          gw    == depth + 1
          zero  == nt.c \in {"N", "T", "B"} /\ nt.n = 0
          best  == make_best_transfers(nt, item.squad, gw).value
          points == IF zero THEN get_expected_points(item.squad, gw, FALSE, FALSE)
                    ELSE best[3] - calc_points_hit(nt, item.free_transfers).value
          tin   == IF zero THEN << >> ELSE best[2].in
          tout  == IF zero THEN << >> ELSE best[2].out
      IN [sid |-> Append(item.sid, nt), depth |-> depth + 1,
          free_transfers |-> calc_free_transfers(nt, item.free_transfers).value,
          squad |-> item.squad,
          new_squad |-> IF zero THEN item.squad ELSE best[1],
          strat_dict |->
             [total_score   |-> sd.total_score + points,
              points_per_gw |-> dict_set(sd.points_per_gw, gw, points),
              players_in    |-> dict_set(sd.players_in, gw, tin),
              players_out   |-> dict_set(sd.players_out, gw, tout),
              cards_played  |-> dict_set(sd.cards_played, gw, card_name(nt))]]

\* children that include the wildcard whether or not the run allows it
children_wildcard_not_asked(node) ==
    LET per(n) ==
            <<Item(Int_(n), node.free_transfers, node.new_squad, node.strat_dict, node.sid)>>
            \o (IF "triple_captain" \in cards_allowed /\ ~letter_in_sid("T", node.sid)
                THEN <<Item(Chip("T", n), node.free_transfers, node.new_squad,
                            node.strat_dict, node.sid)>>
                ELSE << >>)
            \o (IF "bench_boost" \in cards_allowed /\ ~letter_in_sid("B", node.sid)
                THEN <<Item(Chip("B", n), node.free_transfers, node.new_squad,
                            node.strat_dict, node.sid)>>
                ELSE << >>)
    IN  per(0) \o per(1) \o per(2)
        \o (IF ~letter_in_sid("W", node.sid)
            THEN <<Item(WildcardD, node.free_transfers, node.new_squad,
                        node.strat_dict, node.sid)>>
            ELSE << >>)
        \o (IF "free_hit" \in cards_allowed /\ ~letter_in_sid("F", node.sid)
            THEN <<Item(FreeHitD, node.free_transfers, node.squad,
                        node.strat_dict, node.sid)>>
            ELSE << >>)

\* the children a node puts on the queue, in the order of the puts
children(node) ==
    LET per(n) ==
            <<Item(Int_(n), node.free_transfers, node.new_squad, node.strat_dict, node.sid)>>
            \o (IF "triple_captain" \in cards_allowed /\ ~letter_in_sid("T", node.sid)
                THEN <<Item(Chip("T", n), node.free_transfers, node.new_squad,
                            node.strat_dict, node.sid)>>
                ELSE << >>)
            \o (IF "bench_boost" \in cards_allowed /\ ~letter_in_sid("B", node.sid)
                THEN <<Item(Chip("B", n), node.free_transfers, node.new_squad,
                            node.strat_dict, node.sid)>>
                ELSE << >>)
    IN  per(0) \o per(1) \o per(2)
        \o (IF "wildcard" \in cards_allowed /\ ~letter_in_sid("W", node.sid)
            THEN <<Item(WildcardD, node.free_transfers, node.new_squad,
                        node.strat_dict, node.sid)>>
            ELSE << >>)
        \o (IF "free_hit" \in cards_allowed /\ ~letter_in_sid("F", node.sid)
            THEN <<Item(FreeHitD, node.free_transfers, node.squad,
                        node.strat_dict, node.sid)>>
            ELSE << >>)

(***************************************************************************)
(* The run.                                                                *)
(***************************************************************************)
TreeInit ==
    /\ num_weeks \in 1..MaxWeeks
    /\ cards_allowed \in SUBSET AllCards
    /\ num_thread \in 1..MaxProcs
    /\ num_thread * expected_num(num_weeks, cards_allowed) <= MaxLoad
    /\ num_free_transfers \in {1, 2}
    /\ gain \in {0, 3}
    /\ queue = << >>
    /\ pc = [w \in Procs |-> IF w <= num_thread THEN "poll" ELSE "unused"]
    /\ status = [w \in Procs |-> no_status]
    /\ files = << >>
    /\ cpc = "put"
    /\ best_strategy = None
    /\ table = None
    /\ crashes = 0

\* The queue is a CustomQueue of airsenal.framework.multiprocessing_utils: a
\* process-safe queue shared by the workers.  qsize() is the number of items
\* on it; get() without arguments waits until there is an item to take.
qsize(q) == Len(q)

\* optimize, line 113: if queue.qsize() > 0
Poll(w) ==
    /\ pc[w] = "poll"
    /\ pc' = [pc EXCEPT ![w] = IF qsize(queue) > 0 THEN "get" ELSE "check"]
    /\ UNCHANGED <<notTree, inputs, queue, status, files, cpc, best_strategy, table, crashes>>

\* optimize, line 114: status = queue.get(), which waits for an item
Get(w) ==
    /\ pc[w] = "get"
    /\ qsize(queue) > 0
    /\ status' = [status EXCEPT ![w] = Head(queue)]
    /\ queue' = Tail(queue)
    /\ pc' = [pc EXCEPT ![w] = "work"]
    /\ UNCHANGED <<notTree, inputs, files, cpc, best_strategy, table, crashes>>

\* optimize, lines 116-126: is_finished(...) -> break, else sleep and retry
Check(w) ==
    /\ pc[w] = "check"
    /\ pc' = [pc EXCEPT ![w] = IF is_finished THEN "done" ELSE "poll"]
    /\ UNCHANGED <<notTree, inputs, queue, status, files, cpc, best_strategy, table, crashes>>

\* optimize, lines 136-260: process the item, then write the leaf file or
\* put the children on the queue
Work(w) ==
    /\ pc[w] = "work"
    /\ LET node == node_of(status[w])
       IN  IF node.depth >= num_weeks
           THEN /\ files' = dict_set(files, node.sid, node.strat_dict)
                /\ queue' = queue
           ELSE /\ queue' = queue \o children(node)
                /\ files' = files
    /\ status' = [status EXCEPT ![w] = no_status]
    /\ pc' = [pc EXCEPT ![w] = "poll"]
    /\ UNCHANGED <<notTree, inputs, cpc, best_strategy, table, crashes>>

\* a worker process dies while it processes an item (an exception, a kill)
Crash(w) ==
    /\ pc[w] = "work"
    /\ crashes < MaxCrashes
    /\ crashes' = crashes + 1
    /\ status' = [status EXCEPT ![w] = no_status]
    /\ pc' = [pc EXCEPT ![w] = "dead"]
    /\ UNCHANGED <<notTree, inputs, queue, files, cpc, best_strategy, table>>

Worker(w) == Poll(w) \/ Get(w) \/ Check(w) \/ Work(w)

\* run_optimization, line 454: the root goes on the queue once the workers run
PutRoot ==
    /\ cpc = "put"
    /\ queue' = Append(queue, root_item)
    /\ cpc' = "join"
    /\ UNCHANGED <<notTree, inputs, pc, status, files, best_strategy, table, crashes>>

\* run_optimization, lines 456-459: p.join() for every worker
Join ==
    /\ cpc = "join"
    /\ \A w \in Workers : pc[w] \in {"done", "dead"}
    /\ cpc' = "find"
    /\ UNCHANGED <<notTree, inputs, queue, pc, status, files, best_strategy, table, crashes>>

\* find_best_strat_from_json: the files are scanned in os.listdir order, which
\* is arbitrary; a strat replaces the best so far only if its total_score is
\* strictly greater, so the result is the first file in listing order that
\* reaches the maximum, or None when no total_score is > 0.
\* a scan that may end with any strat whose total_score is above 0
best_strats_above_zero(dir) ==
    LET some == {f \in DOMAIN dir : dir[f].total_score > 0}
    IN  IF some = {} THEN {None} ELSE {dir[f] : f \in some}

best_strats(dir) ==
    LET top(f) == \A g \in DOMAIN dir : dir[g].total_score <= dir[f].total_score
        tops == {f \in DOMAIN dir : top(f) /\ dir[f].total_score > 0}
    IN  IF tops = {} THEN {None} ELSE {dir[f] : f \in tops}

find_best_strat_from_json == best_strats(files)

FindBest ==
    /\ cpc = "find"
    /\ best_strategy' \in find_best_strat_from_json
    /\ cpc' = "fill"
    /\ UNCHANGED <<notTree, inputs, queue, pc, status, files, table, crashes>>

\* find_baseline_score_from_json: the total_score of the leaf "0-0-...-0",
\* 0.0 when that file does not exist
find_baseline_score_from_json ==
    LET zeros == [i \in 1..num_weeks |-> Int_(0)]
    IN  IF zeros \in DOMAIN files THEN files[zeros].total_score ELSE 0

\* run_optimization, lines 464-465: fill_suggestion_table(baseline_score,
\* best_strategy, season); best_strat["total_score"] raises when it is None
Fill ==
    /\ cpc = "fill"
    /\ IF best_strategy = None
       THEN cpc' = "failed" /\ table' = table
       ELSE /\ cpc' = "filled"
            /\ table' = [best_strat |-> best_strategy,
                         points_gain |-> best_strategy.total_score
                                            - find_baseline_score_from_json]
    /\ UNCHANGED <<notTree, inputs, queue, pc, status, files,
                   best_strategy, crashes>>

\* run_optimization, lines 466-473: the printout, then shutil.rmtree(OUTPUT_DIR)
Cleanup ==
    /\ cpc = "filled"
    /\ cpc' = "end"
    /\ files' = << >>
    /\ UNCHANGED <<notTree, inputs, queue, pc, status, best_strategy,
                   table, crashes>>

Coordinator == PutRoot \/ Join \/ FindBest \/ Fill \/ Cleanup

(***************************************************************************)
(* Squad: framework/squad.py.                                              *)
(***************************************************************************)
Positions == {"GK", "DEF", "MID", "FWD"}

TOTAL_PER_POSITION == ("GK" :> 2) @@ ("DEF" :> 5) @@ ("MID" :> 5) @@ ("FWD" :> 3)

\* The players table of the database: position and team of a player id.
\* Ids 1..5 are goalkeepers and forwards of teams 1 and 2; 6..11 are
\* defenders, 12..17 midfielders, 18..21 forwards, each of a team of its own.
PlayerIds == 1..21

position_of(id) ==
    IF id \in {1, 2, 3} THEN "GK"
    ELSE IF id \in {4, 5} \/ id \in 18..21 THEN "FWD"
    ELSE IF id \in 6..11 THEN "DEF"
    ELSE "MID"

team_of(id) == IF id \in {1, 2, 4, 5} THEN 1 ELSE IF id = 3 THEN 2 ELSE id

\* prices a player has in the database over the gameweeks
Prices == {1, 3}

\* the `price` argument of add_player / remove_player: None, or a number
NoPrice == [given |-> FALSE, value |-> 0]
PriceArgs == {NoPrice, [given |-> TRUE, value |-> 0], [given |-> TRUE, value |-> 3]}

\* `if price:` is false for None and for 0
truthy(price) == price.given /\ price.value # 0

\* CandidatePlayer(p, season, gameweek): purchase_price is the database price
CandidatePlayer(id, db_price) ==
    [player_id |-> id, position |-> position_of(id), team |-> team_of(id),
     purchase_price |-> db_price]

\* a squad that never looks for the player in its list
check_no_duplicate_player_skipped(player) == TRUE

check_no_duplicate_player(player) ==
    \A i \in 1..Len(players) : players[i].player_id # player.player_id

\* a squad that lets a position grow one beyond its limit
check_num_in_position_inclusive(player) ==
    num_position[player.position] <= TOTAL_PER_POSITION[player.position]

check_num_in_position(player) ==
    num_position[player.position] < TOTAL_PER_POSITION[player.position]

\* a squad that gives up at the fourth player of the team only
check_num_per_team_of_four(player) ==
    Cardinality({i \in 1..Len(players) : players[i].team = player.team}) < 4

\* counts the players of the new player's team and gives up at the third
check_num_per_team(player) ==
    Cardinality({i \in 1..Len(players) : players[i].team = player.team}) < 3

\* a squad that lets the purchase overdraw the budget by one
check_cost_overdrawn(player) == player.purchase_price <= budget + 1

check_cost(player) == player.purchase_price <= budget

\* <<ok, reason>> of add_player's checks, in the order of the code
add_checks(player, check_budget, check_team) ==
    IF ~check_no_duplicate_player(player) THEN <<FALSE, "duplicate">>
    ELSE IF ~check_num_in_position(player) THEN <<FALSE, "position">>
    ELSE IF check_budget /\ ~check_cost(player) THEN <<FALSE, "budget">>
    ELSE IF check_team /\ ~check_num_per_team(player) THEN <<FALSE, "team">>
    ELSE <<TRUE, "ok">>

\* no player has been removed by the last call
nothing_sold == [removed |-> FALSE]

\* an add_player that pays for the player before it checks the constraints
add_player_paid_first(id, price, db_price, check_budget, check_team) ==
    LET cand   == CandidatePlayer(id, db_price)
        player == IF truthy(price) THEN [cand EXCEPT !.purchase_price = price.value]
                  ELSE cand
        res    == add_checks(player, check_budget, check_team)
    IN  /\ budget - player.purchase_price >= 0 - MaxDebt
        /\ last' = [op |-> "add", ok |-> res[1], why |-> res[2]]
        /\ budget_checked' = (budget_checked /\ check_budget)
        /\ team_checked' = (team_checked /\ check_team)
        /\ sold' = nothing_sold
        /\ budget' = budget - player.purchase_price
        /\ IF res[1]
           THEN /\ players' = Append(players, player)
                /\ num_position' = [num_position EXCEPT ![player.position] = @ + 1]
           ELSE UNCHANGED <<players, num_position>>
        /\ UNCHANGED <<notSquad, input_ids>>

add_player(id, price, db_price, check_budget, check_team) ==
    LET cand   == CandidatePlayer(id, db_price)
        player == IF truthy(price) THEN [cand EXCEPT !.purchase_price = price.value]
                  ELSE cand
        res    == add_checks(player, check_budget, check_team)
    IN  /\ budget - player.purchase_price >= 0 - MaxDebt
        /\ last' = [op |-> "add", ok |-> res[1], why |-> res[2]]
        /\ budget_checked' = (budget_checked /\ check_budget)
        /\ team_checked' = (team_checked /\ check_team)
        /\ sold' = nothing_sold
        /\ IF res[1]
           THEN /\ players' = Append(players, player)
                /\ num_position' = [num_position EXCEPT ![player.position] = @ + 1]
                /\ budget' = budget - player.purchase_price
           ELSE UNCHANGED <<players, num_position, budget>>
        /\ UNCHANGED <<notSquad, input_ids>>

\* price_now is what the database gives for the gameweek (None -> 0)
get_sell_price_for_player(player, db_price_now) ==
    LET price_bought == player.purchase_price
        price_now == IF db_price_now = 0 THEN price_bought ELSE db_price_now
    IN  IF price_now > price_bought THEN (price_now + price_bought) \div 2
        ELSE price_now

\* list.remove(p): the list without its element at index i
remove_at(seq, i) == SubSeq(seq, 1, i - 1) \o SubSeq(seq, i + 1, Len(seq))

remove_player(player_id, price, db_price_now) ==
    LET found == {i \in 1..Len(players) : players[i].player_id = player_id}
    IN  /\ last' = [op |-> "remove", ok |-> found # {},
                    why |-> IF found = {} THEN "absent" ELSE "ok"]
        /\ IF found = {}
           THEN /\ UNCHANGED <<players, num_position, budget>>
                /\ sold' = nothing_sold
           ELSE LET i == CHOOSE j \in found : \A k \in found : j <= k
                    p == players[i]
                    credit == IF truthy(price) THEN price.value
                              ELSE get_sell_price_for_player(p, db_price_now)
                IN  /\ budget + credit <= MaxBudget
                    /\ sold' = [removed |-> TRUE, player |-> p, price |-> price,
                                price_now |-> db_price_now]
                    /\ budget' = budget + credit
                    /\ num_position' = [num_position EXCEPT ![p.position] = @ - 1]
                    /\ players' = remove_at(players, i)
        /\ UNCHANGED <<notSquad, input_ids, budget_checked, team_checked>>

AddPlayer ==
    \E id \in input_ids, price \in PriceArgs, db_price \in Prices,
       check_budget \in BOOLEAN, check_team \in BOOLEAN :
        add_player(id, price, db_price, check_budget, check_team)

RemovePlayer ==
    \E id \in input_ids, price \in PriceArgs, db_price_now \in Prices \cup {0} :
        remove_player(id, price, db_price_now)

\* a squad of the given ids, each bought at price 1
squad_of(ids) == [i \in 1..Len(ids) |-> CandidatePlayer(ids[i], 1)]

count_positions(ps) ==
    [pos \in Positions |-> Cardinality({i \in 1..Len(ps) : ps[i].position = pos})]

\* The squads a run starts from and the ids its calls are made with: the
\* empty squad of the constructor, a squad that holds two players of team 1,
\* or a squad that already holds all but one of the players a position allows.
Scenarios ==
    { [roster |-> << >>,              ids |-> {1, 2, 3}],
      [roster |-> <<1, 4>>,           ids |-> {2, 4, 5}],
      [roster |-> <<6, 7, 8, 9>>,     ids |-> {6, 10, 11}],
      [roster |-> <<12, 13, 14, 15>>, ids |-> {12, 16, 17}],
      [roster |-> <<18, 19>>,         ids |-> {18, 20, 21}] }

SquadInit ==
    /\ \E sc \in Scenarios :
          /\ players = squad_of(sc.roster)
          /\ input_ids = sc.ids
    /\ num_position = count_positions(players)
    /\ budget \in {0, 2, 4}
    /\ last = [op |-> "init", ok |-> TRUE, why |-> "ok"]
    /\ budget_checked = TRUE
    /\ team_checked = TRUE
    /\ sold = nothing_sold

\* the squad is not used by the model of the tree search
SquadIdle ==
    /\ players = << >>
    /\ input_ids = {}
    /\ num_position = [pos \in Positions |-> 0]
    /\ budget = 0
    /\ last = [op |-> "init", ok |-> TRUE, why |-> "ok"]
    /\ budget_checked = TRUE
    /\ team_checked = TRUE
    /\ sold = nothing_sold

TreeIdle ==
    /\ num_thread = 1
    /\ num_weeks = 1
    /\ cards_allowed = {}
    /\ num_free_transfers = 1
    /\ gain = 0
    /\ queue = << >>
    /\ pc = [w \in Procs |-> "unused"]
    /\ status = [w \in Procs |-> no_status]
    /\ files = << >>
    /\ cpc = "idle"
    /\ best_strategy = None
    /\ table = None
    /\ crashes = 0

(***************************************************************************)
(* Single calls of calc_points_hit, calc_free_transfers,                   *)
(* make_best_transfers and count_expected_outputs, with any arguments.     *)
(***************************************************************************)
\* a string that is no directive, such as "X"
UnknownD == [c |-> "X", n |-> 0]

\* the directives the calls are made with: the ints 0..MaxArg, "T"/"B" with
\* the digits 0..MaxArg, "W", "F" and a string that is no directive
DirectiveArgs ==
    {Int_(n) : n \in 0..MaxArg}
    \cup {Chip(c, n) : c \in {"T", "B"}, n \in 0..MaxArg}
    \cup {WildcardD, FreeHitD, UnknownD}

no_call == [fn |-> "none"]

CallsInit == call = no_call

CallPointsHit ==
    /\ \E num_transfers \in DirectiveArgs, free_transfers \in 0..MaxArg :
          call' = [fn |-> "calc_points_hit", num_transfers |-> num_transfers,
                   free_transfers |-> free_transfers,
                   result |-> calc_points_hit(num_transfers, free_transfers)]
    /\ UNCHANGED notCalls

CallFreeTransfers ==
    /\ \E num_transfers \in DirectiveArgs, prev_free_transfers \in 0..MaxArg :
          call' = [fn |-> "calc_free_transfers", num_transfers |-> num_transfers,
                   free_transfers |-> prev_free_transfers,
                   result |-> calc_free_transfers(num_transfers, prev_free_transfers)]
    /\ UNCHANGED notCalls

CallMakeBestTransfers ==
    /\ \E num_transfers \in DirectiveArgs, free_transfers \in 0..MaxArg :
          call' = [fn |-> "make_best_transfers", num_transfers |-> num_transfers,
                   free_transfers |-> free_transfers,
                   result |-> make_best_transfers(num_transfers, starting_squad, 1)]
    /\ UNCHANGED notCalls

CallCountExpectedOutputs ==
    /\ \E n \in 1..MaxCountWeeks, cards \in SUBSET AllCards :
          call' = [fn |-> "count_expected_outputs", max_week |-> n, cards |-> cards,
                   result |-> count_expected_outputs(0, n, "wildcard" \in cards,
                                  "free_hit" \in cards, "triple_captain" \in cards,
                                  "bench_boost" \in cards)]
    /\ UNCHANGED notCalls

\* no single call is being made
CallsIdle == call = no_call

(***************************************************************************)
(* apply_strategy(strat, tag): the gameweeks of the plan are 1..Len of     *)
(* strat.dict, one loop iteration is one step.                             *)
(***************************************************************************)
\* a gameweek that is None (bench_boost_gw, triple_captain_gw)
NoGw == 0

\* a local name that has no value yet / that has one
Unbound == [bound |-> FALSE]
Bound(value) == [bound |-> TRUE, value |-> value]

Some(squad) == [none |-> FALSE, squad |-> squad]

\* the directives of the plans: those of the search, and a larger int
PlanDirectives ==
    {Int_(n) : n \in 0..3} \cup {Chip(c, n) : c \in {"T", "B"}, n \in {0, 1}}
    \cup {WildcardD, FreeHitD}

Plans == UNION {[1..n -> PlanDirectives] : n \in 1..MaxWeeks}

\* lines 633-640: the gameweek of the last "B0"/"B1" (resp. "T0"/"T1"), or None
chip_gw(dict, letter) ==
    LET gws == {g \in DOMAIN dict : dict[g].c = letter /\ dict[g].n \in {0, 1}}
    IN  IF gws = {} THEN NoGw ELSE CHOOSE g \in gws : \A h \in gws : h <= g

\* [p.player_id for p in squad.players]
ids_of(squad) == [ids_of |-> squad]

\* airsenal.framework.utils.get_squad_value(squad)
get_squad_value(squad) == [value_of |-> squad]

\* make_optimum_single_transfer / make_optimum_double_transfer /
\* make_random_transfers on a range of gameweeks gw.. with the chip gameweeks
searched(squad, n, gw, bench_boost_gw, triple_captain_gw) ==
    LET step == [n |-> n, gw |-> gw, bench_boost_gw |-> bench_boost_gw,
                 triple_captain_gw |-> triple_captain_gw]
    IN  [squad |-> Append(squad, step),
         rp |-> [k \in 1..n |-> [io |-> "out", k |-> k, step |-> step, squad |-> squad]],
         ap |-> [k \in 1..n |-> [io |-> "in", k |-> k, step |-> step, squad |-> squad]]]

\* make_new_squad(budget, num_iter, tag, gw_range, ...): a squad of 15 new players
make_new_squad(squad_budget, gw_range, bench_boost_gw, triple_captain_gw) ==
    <<[n |-> 15, budget |-> squad_budget, gw_range |-> gw_range,
       bench_boost_gw |-> bench_boost_gw, triple_captain_gw |-> triple_captain_gw]>>

RECURSIVE Pow(_, _)
Pow(b, n) == IF n = 0 THEN 1 ELSE b * Pow(b, n - 1)

\* get_discount_factor(next_gw, pred_gw), "exp" with 14/15, as a fraction
get_discount_factor(next_gw, pred_gw) ==
    [num |-> Pow(14, pred_gw - next_gw), den |-> Pow(15, pred_gw - next_gw)]

times(points, factor) == (points * factor.num) \div factor.den

\* the call apply_strategy(strat, tag): baseline_dict is None, the default
ApplyInit ==
    /\ strat \in [dict : Plans, hit : {0, 4}]
    /\ list_value_raises \in BOOLEAN
    /\ baseline_dict = None
    /\ apc = "loop"
    /\ igw = 1
    /\ new_squad = starting_squad
    /\ squad_before_free_hit = None
    /\ rp = Unbound
    /\ ap = Unbound
    /\ strategy_output = [empty_strat_dict EXCEPT !.total_score = -1 * strat.hit]
    /\ applied = << >>
    /\ returned = None

\* what one gameweek's branch (lines 654-733) does to the locals
process_gameweek(squad, gw, directive, bench_boost_gw, triple_captain_gw) ==
    LET same == [raised |-> FALSE, squad |-> squad, rp |-> rp, ap |-> ap,
                 before |-> None]
        one  == searched(squad, directive.n, gw, bench_boost_gw, triple_captain_gw)
        moved == [same EXCEPT !.squad = one.squad, !.rp = Bound(one.rp),
                              !.ap = Bound(one.ap)]
    IN  CASE directive = Int_(0) -> [same EXCEPT !.rp = Bound(<< >>), !.ap = Bound(<< >>)]
          [] directive \in {Int_(1), Int_(2)} -> moved
          [] directive = WildcardD ->
                LET built == make_new_squad(get_squad_value(squad), gw,
                                            bench_boost_gw, triple_captain_gw)
                IN  [same EXCEPT !.squad = built, !.rp = Bound(ids_of(squad)),
                                 !.ap = Bound(ids_of(built))]
          [] directive = FreeHitD ->
                IF list_value_raises
                THEN [same EXCEPT !.raised = TRUE]
                ELSE LET built == make_new_squad(get_squad_value(ids_of(squad)), <<gw>>,
                                                 bench_boost_gw, triple_captain_gw)
                     IN  [same EXCEPT !.squad = built, !.ap = Bound(ids_of(built)),
                                      !.before = Some(squad)]
          [] directive \in {Chip("B", 0), Chip("T", 0)} ->
                [same EXCEPT !.rp = Bound(<< >>), !.ap = Bound(<< >>)]
          [] directive \in {Chip("B", 1), Chip("T", 1)} -> moved
          [] OTHER -> moved

\* a bail-out that stops at 5 points below the baseline already
falls_behind_from_5(gw, total_score) ==
    baseline_dict # None /\ baseline_dict.curve[gw] - total_score >= 5

\* line 749: baseline_dict and baseline_dict[gw] - strategy_output["total_score"] > 5
falls_behind(gw, total_score) ==
    baseline_dict # None /\ baseline_dict.curve[gw] - total_score > 5

\* one iteration of the loop over the gameweeks (lines 642-759)
ApplyGameweek ==
    /\ apc = "loop"
    /\ igw <= Len(strat.dict)
    /\ LET gw == igw
           directive == strat.dict[gw]
           bench_boost_gw == chip_gw(strat.dict, "B")
           triple_captain_gw == chip_gw(strat.dict, "T")
           from == IF squad_before_free_hit = None THEN new_squad
                   ELSE squad_before_free_hit.squad
           done == process_gameweek(from, gw, directive, bench_boost_gw, triple_captain_gw)
           bb == gw = bench_boost_gw
           tc == gw /= bench_boost_gw /\ gw = triple_captain_gw
           score == times(get_expected_points(done.squad, gw, tc, bb),
                          get_discount_factor(gw, gw))
           card == IF isint(directive) THEN "None" ELSE directive.c
           here == [gw |-> gw, from |-> from, squad |-> done.squad,
                    triple_captain |-> tc, bench_boost |-> bb]
       IN  IF done.raised
           THEN /\ apc' = "raised"
                /\ UNCHANGED <<igw, new_squad, squad_before_free_hit, rp, ap,
                               strategy_output, applied>>
           ELSE IF falls_behind(gw, strategy_output.total_score + score)
           THEN /\ apc' = "break"
                /\ new_squad' = done.squad
                /\ squad_before_free_hit' = done.before
                /\ rp' = done.rp
                /\ ap' = done.ap
                /\ strategy_output' = [strategy_output EXCEPT !.total_score = @ + score]
                /\ applied' = Append(applied, here)
                /\ igw' = igw
           ELSE IF ~done.rp.bound
           THEN /\ apc' = "raised"
                /\ UNCHANGED <<igw, new_squad, squad_before_free_hit, rp, ap,
                               strategy_output, applied>>
           ELSE /\ apc' = "loop"
                /\ igw' = igw + 1
                /\ new_squad' = done.squad
                /\ squad_before_free_hit' = done.before
                /\ rp' = done.rp
                /\ ap' = done.ap
                /\ strategy_output' =
                      [total_score |-> strategy_output.total_score + score,
                       points_per_gw |-> dict_set(strategy_output.points_per_gw, gw, score),
                       cards_played |-> dict_set(strategy_output.cards_played, gw, card),
                       players_in |-> dict_set(strategy_output.players_in, gw, done.ap.value),
                       players_out |-> dict_set(strategy_output.players_out, gw, done.rp.value)]
                /\ applied' = Append(applied, here)
    /\ UNCHANGED <<strat, list_value_raises, baseline_dict, returned, notApply>>

\* lines 761-766: the output is returned if its total is above 0, else {}
ApplyReturn ==
    /\ \/ apc = "loop" /\ igw > Len(strat.dict)
       \/ apc = "break"
    /\ apc' = "returned"
    /\ returned' = IF strategy_output.total_score > 0 THEN strategy_output
                   ELSE [empty |-> TRUE]
    /\ UNCHANGED <<strat, list_value_raises, baseline_dict, igw, new_squad,
                   squad_before_free_hit, rp, ap, strategy_output, applied, notApply>>

\* apply_strategy is not being called
ApplyIdle ==
    /\ strat = [dict |-> << >>, hit |-> 0]
    /\ list_value_raises = FALSE
    /\ baseline_dict = None
    /\ apc = "idle"
    /\ igw = 1
    /\ new_squad = starting_squad
    /\ squad_before_free_hit = None
    /\ rp = Unbound
    /\ ap = Unbound
    /\ strategy_output = empty_strat_dict
    /\ applied = << >>
    /\ returned = None



(***************************************************************************)
(* Squads as values: what the searches copy (fastcopy), change and score.  *)
(* env.points[id][k] is the predicted points of player id in the k-th      *)
(* gameweek of the range, env.price[id] the player's price in the          *)
(* database at the gameweek of the transfer.                               *)
(***************************************************************************)
\* Squad(budget)
Squad(squad_budget) ==
    [players |-> << >>, budget |-> squad_budget, num_position |-> [pos \in Positions |-> 0]]

\* CandidatePlayer(p, season, gameweek): bought at the database price, and
\* (airsenal.framework.player, not under src/) starting, no captain, and no
\* sub_position (None, written -1)
new_candidate(id) ==
    [player_id |-> id, position |-> position_of(id), team |-> team_of(id),
     purchase_price |-> env.price[id], is_starting |-> TRUE,
     is_captain |-> FALSE, is_vice_captain |-> FALSE, sub_position |-> -1]

\* self.add_player(p): [ok, squad], the checks in the order of lines 100-123
Squad_add_player(self, id) ==
    LET player == new_candidate(id)
        n == Len(self.players)
        ok == /\ \A i \in 1..n : self.players[i].player_id # id
              /\ self.num_position[player.position] < TOTAL_PER_POSITION[player.position]
              /\ player.purchase_price <= self.budget
              /\ Cardinality({i \in 1..n : self.players[i].team = player.team}) < 3
    IN  IF ok
        THEN [ok |-> TRUE,
              squad |-> [players |-> Append(self.players, player),
                         budget |-> self.budget - player.purchase_price,
                         num_position |-> [self.num_position EXCEPT ![player.position] = @ + 1]]]
        ELSE [ok |-> FALSE, squad |-> self]

\* self.remove_player(player_id), no price given: [ok, squad]
Squad_remove_player(self, player_id) ==
    LET at == {i \in 1..Len(self.players) : self.players[i].player_id = player_id}
    IN  IF at = {} THEN [ok |-> FALSE, squad |-> self]
        ELSE LET i == CHOOSE j \in at : \A k \in at : j <= k
                 p == self.players[i]
             IN  [ok |-> TRUE,
                  squad |-> [players |-> remove_at(self.players, i),
                             budget |-> self.budget
                                        + get_sell_price_for_player(p, env.price[player_id]),
                             num_position |-> [self.num_position EXCEPT ![p.position] = @ - 1]]]

\* F(value), the value being computed once
with(value, F(_)) == CHOOSE r \in {F(v) : v \in {value}} : TRUE

\* the list f[1], ..., f[n]
listed(f, n) == SubSeq(f, 1, n)

RECURSIVE sum_values(_, _)
sum_values(f, n) == IF n = 0 THEN 0 ELSE f[n] + sum_values(f, n - 1)

\* an is_complete that is content with 14 players
is_complete_from_14(self) ==
    self.num_position["GK"] + self.num_position["DEF"] + self.num_position["MID"]
        + self.num_position["FWD"] >= 14

\* self.is_complete()
Squad_is_complete(self) ==
    self.num_position["GK"] + self.num_position["DEF"] + self.num_position["MID"]
        + self.num_position["FWD"] = 15

FORMATIONS == <<<<3, 4, 3>>, <<3, 5, 2>>, <<4, 3, 3>>, <<4, 4, 2>>, <<4, 5, 1>>, <<5, 4, 1>>, <<5, 3, 2>>>>

\* how many of the players `among` come before player i when the list is
\* sorted by predicted points, highest first (a stable sort)
place(self, gw, i, among) ==
    LET pts(j) == env.points[self.players[j].player_id][gw]
    IN  Cardinality({j \in among : pts(j) > pts(i) \/ (pts(j) = pts(i) /\ j < i)})

\* self.total_points_for_starting_11(gameweek, tag, triple_captain)
total_points_for_starting_11(self, gw, triple_captain) ==
    LET pts(j) == env.points[self.players[j].player_id][gw]
        worth == listed([j \in 1..Len(self.players) |->
                    IF ~self.players[j].is_starting THEN 0
                    ELSE IF ~self.players[j].is_captain THEN pts(j)
                    ELSE IF triple_captain THEN 3 * pts(j) ELSE 2 * pts(j)],
                        Len(self.players))
    IN  sum_values(worth, Len(self.players))

\* self.total_points_for_subs(gameweek, tag)
total_points_for_subs(self, gw) ==
    LET worth == listed([j \in 1..Len(self.players) |->
                    IF self.players[j].is_starting THEN 0
                    ELSE env.points[self.players[j].player_id][gw]], Len(self.players))
    IN  sum_values(worth, Len(self.players))

\* self.apply_formation(player_dict, formation), the keepers as lines 273-274
apply_formation(self, order, formation) ==
    LET starts(j) ==
            CASE self.players[j].position = "GK"  -> order[j] = 0
              [] self.players[j].position = "DEF" -> order[j] < formation[1]
              [] self.players[j].position = "MID" -> order[j] < formation[2]
              [] self.players[j].position = "FWD" -> order[j] < formation[3]
    IN  [self EXCEPT !.players =
            listed([j \in 1..Len(self.players) |->
                      [self.players[j] EXCEPT !.is_starting = starts(j)]], Len(self.players))]

\* the formation optimize_subs ends with: the last one of FORMATIONS whose
\* score is not below the score of any one before it
RECURSIVE best_formation(_, _, _, _)
best_formation(self, gw, order, k) ==
    LET score(f) == total_points_for_starting_11(apply_formation(self, order, f), gw, FALSE)
        before == IF k = 1 THEN [score |-> 0, formation |-> 0]
                  ELSE best_formation(self, gw, order, k - 1)
        here == score(FORMATIONS[k])
    IN  IF here >= before.score THEN [score |-> here, formation |-> k] ELSE before

\* an order_substitutes that gives two substitutes of equal points the same
\* sub_position
order_substitutes_by_points_only(self, gw) ==
    LET n == Len(self.players)
        subs == {j \in 1..n : ~self.players[j].is_starting}
        pts(j) == env.points[self.players[j].player_id][gw]
        before(i) == Cardinality({j \in subs : pts(j) > pts(i)})
    IN  [self EXCEPT !.players =
            listed([j \in 1..n |-> IF j \in subs
                                   THEN [self.players[j] EXCEPT !.sub_position = before(j)]
                                   ELSE self.players[j]], n)]

\* self.order_substitutes(gameweek, tag): the players not starting get the
\* sub_position 0, 1, ... in the order reversed(np.argsort(points)): by
\* points, highest first, and of two with equal points the later one first
order_substitutes(self, gw) ==
    LET n == Len(self.players)
        subs == {j \in 1..n : ~self.players[j].is_starting}
        pts(j) == env.points[self.players[j].player_id][gw]
        before(i) == Cardinality({j \in subs : pts(j) > pts(i) \/ (pts(j) = pts(i) /\ j > i)})
    IN  [self EXCEPT !.players =
            listed([j \in 1..n |-> IF j \in subs
                                   THEN [self.players[j] EXCEPT !.sub_position = before(j)]
                                   ELSE self.players[j]], n)]

\* self.optimize_subs(gameweek, tag): the squad with the starting 11 chosen
\* and the substitutes ordered.  When no formation scores 0.0 or more,
\* best_formation is still None at line 285 and apply_formation(player_dict,
\* None) raises a TypeError, the squad being left as the last formation
\* tried left it.
optimize_subs(self, gw) ==
    LET n == Len(self.players)
        order == listed([i \in 1..n |->
                    place(self, gw, i, {j \in 1..n : self.players[j].position
                                                      = self.players[i].position})], n)
        lineup(best) ==
            IF best.formation = 0
            THEN [raised |-> TRUE,
                  squad |-> apply_formation(self, order, FORMATIONS[Len(FORMATIONS)])]
            ELSE [raised |-> FALSE,
                  squad |-> order_substitutes(
                                apply_formation(self, order, FORMATIONS[best.formation]), gw)]
    IN  with(best_formation(self, gw, order, Len(FORMATIONS)), lineup)

\* a pick_captains that leaves the flags of earlier calls set
pick_captains_keeping_flags(self, gw) ==
    LET n == Len(self.players)
    IN  [self EXCEPT !.players =
            listed([j \in 1..n |-> [self.players[j] EXCEPT
                               !.is_captain = (@ \/ place(self, gw, j, 1..n) = 0),
                               !.is_vice_captain = (@ \/ place(self, gw, j, 1..n) = 1)]], n)]

\* self.pick_captains(gameweek, tag)
pick_captains(self, gw) ==
    LET n == Len(self.players)
    IN  [self EXCEPT !.players =
            listed([j \in 1..n |-> [self.players[j] EXCEPT
                               !.is_captain = (place(self, gw, j, 1..n) = 0),
                               !.is_vice_captain = (place(self, gw, j, 1..n) = 1)]], n)]

\* self.get_expected_points(gameweek, tag, bench_boost, triple_captain):
\* raised, or the value returned and the squad with its flags set
Squad_get_expected_points(self, gw, bench_boost, triple_captain) ==
    IF ~Squad_is_complete(self) THEN [raised |-> TRUE, squad |-> self]
    ELSE LET total_score(chosen) ==
                 [raised |-> FALSE, squad |-> chosen,
                  value |-> total_points_for_starting_11(chosen, gw, triple_captain)
                            + (IF bench_boost THEN total_points_for_subs(chosen, gw) ELSE 0)]
             captained(lineup) ==
                 IF lineup.raised THEN [raised |-> TRUE, squad |-> lineup.squad]
                 ELSE with(pick_captains(lineup.squad, gw), total_score)
         IN  with(optimize_subs(self, gw), captained)


(***************************************************************************)
(* The exhaustive searches.  The gameweeks of the range are 1..env.weeks,  *)
(* the transfer is made at gameweek 1.                                     *)
(***************************************************************************)
\* get_predicted_points(gameweek=gw_range, position=pos, tag=tag): the ids of
\* all players of the position, ranked by their predicted points summed over
\* the range, highest first (players with the same sum by id)
get_predicted_points(pos) ==
    LET ids == {id \in PlayerIds : position_of(id) = pos}
        total(id) == sum_values(env.points[id], env.weeks)
        before(id) == Cardinality({o \in ids : total(o) > total(id)
                                               \/ (total(o) = total(id) /\ o < id)})
    IN  listed([k \in 1..Cardinality(ids) |-> CHOOSE id \in ids : before(id) = k - 1],
               Cardinality(ids))

\* the loop `for gw in gameweek_range: total_points += get_expected_points(gw,
\* ...) * get_discount_factor(gameweek_range[0], gw)` from gameweek gw on;
\* the total is kept as a multiple of 15^(env.weeks - 1)
RECURSIVE horizon_points(_, _)
horizon_points(self, gw) ==
    IF gw > env.weeks THEN [raised |-> FALSE, squad |-> self, total |-> 0]
    ELSE LET bench_boost == gw = env.bench_boost_gw
             triple_captain == ~bench_boost /\ gw = env.triple_captain_gw
             this == Squad_get_expected_points(self, gw, bench_boost, triple_captain)
             factor == get_discount_factor(1, gw)
             rest == horizon_points(this.squad, gw + 1)
         IN  IF this.raised \/ rest.raised THEN [raised |-> TRUE, squad |-> self, total |-> 0]
             ELSE [raised |-> FALSE, squad |-> rest.squad,
                   total |-> this.value * factor.num * Pow(15, env.weeks - gw) + rest.total]

\* a scan that keeps the last candidate add_player accepts, not the first
last_added(self, list, skip, k) ==
    LET fits == {x \in k..Len(list) : list[x] \notin skip /\ Squad_add_player(self, list[x]).ok}
    IN  IF fits = {} THEN 0 ELSE CHOOSE x \in fits : \A y \in fits : y <= x

\* the first candidate of the list, from index k on, that is none of `skip`
\* and that add_player accepts: its index, or 0 when there is none
RECURSIVE first_added(_, _, _, _)
first_added(self, list, skip, k) ==
    IF k > Len(list) THEN 0
    ELSE IF list[k] \notin skip /\ Squad_add_player(self, list[k]).ok THEN k
    ELSE first_added(self, list, skip, k + 1)

\* one pass of the loop `for p_out in squad.players` (lines 158-200), for the
\* i-th player: the best so far after it
single_transfer_of(squad, best, i) ==
    LET p_out == squad.players[i]
        list == get_predicted_points(p_out.position)
        removed == Squad_remove_player(squad, p_out.player_id).squad
        k == first_added(removed, list, {p_out.player_id}, 1)
        swapped == IF k = 0 THEN removed ELSE Squad_add_player(removed, list[k]).squad
        p_in == list[IF k = 0 THEN Len(list) ELSE k]
        scored == horizon_points(swapped, 1)
    IN  IF best.raised \/ scored.raised THEN [best EXCEPT !.raised = TRUE]
        ELSE IF scored.total > best.best_score
        THEN [raised |-> FALSE, best_score |-> scored.total, bound |-> TRUE,
              best_squad |-> scored.squad, best_pid_out |-> <<p_out.player_id>>,
              best_pid_in |-> <<p_in>>]
        ELSE best

RECURSIVE single_transfers_upto(_, _)
single_transfers_upto(squad, i) ==
    IF i = 0
    THEN [raised |-> FALSE, best_score |-> -1 * Pow(15, env.weeks - 1), bound |-> FALSE,
          best_squad |-> squad, best_pid_out |-> <<0>>, best_pid_in |-> <<0>>]
    ELSE single_transfer_of(squad, single_transfers_upto(squad, i - 1), i)

\* make_optimum_single_transfer(squad, tag, gameweek_range, ...): raised
\* (RuntimeError of get_expected_points, or best_squad never assigned), or
\* the triple returned
make_optimum_single_transfer(squad) ==
    LET best == single_transfers_upto(squad, Len(squad.players))
    IN  IF best.raised \/ ~best.bound THEN [raised |-> TRUE] ELSE best

\* lines 255-300: the candidates pin_1 from index k on, for the removed pair
RECURSIVE double_transfers_from(_, _, _, _, _)
double_transfers_from(removed_2, best, pout_1, pout_2, k) ==
    LET list_1 == get_predicted_points(pout_1.position)
        list_2 == get_predicted_points(pout_2.position)
        outs == {pout_1.player_id, pout_2.player_id}
        add_1 == Squad_add_player(removed_2, list_1[k])
        k2 == first_added(add_1.squad, list_2, outs \cup {list_1[k]}, 1)
        scored == horizon_points(Squad_add_player(add_1.squad, list_2[k2]).squad, 1)
        here == IF list_1[k] \in outs \/ ~add_1.ok \/ k2 = 0 THEN best
                ELSE IF scored.total > best.best_score
                THEN [raised |-> FALSE, best_score |-> scored.total, bound |-> TRUE,
                      best_squad |-> scored.squad,
                      best_pid_out |-> <<pout_1.player_id, pout_2.player_id>>,
                      best_pid_in |-> <<list_1[k], list_2[k2]>>]
                ELSE best
    IN  IF k > Len(list_1) THEN best
        ELSE with(here, LAMBDA h : double_transfers_from(removed_2, h, pout_1, pout_2, k + 1))

\* the loop over j (lines 240-250) from j on, for the i-th player removed
RECURSIVE double_transfers_row(_, _, _, _)
double_transfers_row(squad, best, i, j) ==
    LET pout_1 == squad.players[i]
        pout_2 == squad.players[j]
        removed_1 == Squad_remove_player(squad, pout_1.player_id).squad
        removed_2 == Squad_remove_player(removed_1, pout_2.player_id).squad
        here == double_transfers_from(removed_2, best, pout_1, pout_2, 1)
    IN  IF j > Len(squad.players) THEN best
        ELSE with(here, LAMBDA h : double_transfers_row(squad, h, i, j + 1))

\* best_score = 0.0, and best_squad with no value yet (lines 226-227)
no_double_transfer ==
    [raised |-> FALSE, best_score |-> 0, bound |-> FALSE, best_squad |-> Squad(0),
     best_pid_out |-> <<0>>, best_pid_in |-> <<0>>]

(***************************************************************************)
(* The data the searches are called with.  The squad is the 15 players     *)
(* 1, 2 (GK), 6..10 (DEF), 12..16 (MID), 18..20 (FWD), each bought at 1;   *)
(* the other players of the database are 3 (GK), 11 (DEF), 17 (MID) and    *)
(* 4, 5, 21 (FWD).                                                         *)
(***************************************************************************)
given_roster == <<1, 2, 6, 7, 8, 9, 10, 12, 13, 14, 15, 16, 18, 19, 20>>

given_squad(bank) ==
    [players |-> listed([i \in 1..Len(given_roster) |->
                     [player_id |-> given_roster[i], position |-> position_of(given_roster[i]),
                      team |-> team_of(given_roster[i]), purchase_price |-> 1,
                      is_starting |-> TRUE, is_captain |-> FALSE, is_vice_captain |-> FALSE,
                      sub_position |-> -1]],
                        Len(given_roster)),
     budget |-> bank,
     num_position |-> TOTAL_PER_POSITION]

\* predicted points of a player in every gameweek of the range: the players
\* of the squad and most others are worth 2, 3 or 4 in every gameweek
steady(id, weeks) == [k \in 1..weeks |-> 2 + (id % 3)]

\* what the forwards 4 and 21 may be worth: 3 in every gameweek, or 5 in the
\* first gameweek or in the last one only
CandidateRows(weeks) ==
    {[k \in 1..weeks |-> 3], [k \in 1..weeks |-> IF k = 1 THEN MaxPoints ELSE 0],
     [k \in 1..weeks |-> IF k = weeks THEN MaxPoints ELSE 0]}

\* the data of a call: the bank is 0 or 2, the goalkeeper 3 costs 1 or 3,
\* every other player costs 1
SearchData(rows_4, weeks) ==
    {[weeks |-> weeks,
      points |-> [id \in PlayerIds |-> IF id = 4 THEN row_4 ELSE IF id = 21 THEN row_21
                                       ELSE steady(id, weeks)],
      price |-> [id \in PlayerIds |-> IF id = 3 THEN price_3 ELSE 1],
      squad |-> given_squad(bank),
      bench_boost_gw |-> NoGw,
      triple_captain_gw |-> triple_captain_gw] :
        bank \in {0, 2}, price_3 \in {1, 3}, triple_captain_gw \in {NoGw, 1},
        row_4 \in rows_4, row_21 \in CandidateRows(weeks)}

SearchInit ==
    /\ env \in UNION {SearchData(CandidateRows(weeks), weeks) : weeks \in 1..MaxHorizon}
    /\ outcome = no_call

\* the same without the triple captain, the forward 4 being worth 3 in every
\* gameweek
DoubleInit ==
    /\ env \in {e \in UNION {SearchData({[k \in 1..weeks |-> 3]}, weeks) :
                                weeks \in 1..MaxHorizon} : e.triple_captain_gw = NoGw}
    /\ outcome = no_call

CallSingleTransfer ==
    /\ outcome = no_call
    /\ outcome' = [fn |-> "make_optimum_single_transfer",
                 result |-> make_optimum_single_transfer(env.squad)]
    /\ UNCHANGED <<env, trial, build, notSearch>>

\* make_optimum_double_transfer(squad, tag, gameweek_range, ...) is called
DoubleStart ==
    /\ outcome = no_call
    /\ outcome' = [fn |-> "make_optimum_double_transfer", pc |-> "loop", i |-> 1,
                   best |-> no_double_transfer]
    /\ UNCHANGED <<env, trial, build, notSearch>>

\* one pass of `for i in range(len(squad.players) - 1)` (lines 232-300)
DoubleRow ==
    /\ outcome.fn = "make_optimum_double_transfer"
    /\ outcome.pc = "loop"
    /\ outcome.i <= Len(env.squad.players) - 1
    /\ outcome' = [outcome EXCEPT
                     !.best = double_transfers_row(env.squad, outcome.best, outcome.i,
                                                   outcome.i + 1),
                     !.i = outcome.i + 1]
    /\ UNCHANGED <<env, trial, build, notSearch>>

\* line 302: return best_squad, ... (UnboundLocalError if never assigned)
DoubleReturn ==
    /\ outcome.fn = "make_optimum_double_transfer"
    /\ outcome.pc = "loop"
    /\ outcome.i > Len(env.squad.players) - 1
    /\ outcome' = [outcome EXCEPT !.pc = IF outcome.best.bound THEN "returned" ELSE "raised"]
    /\ UNCHANGED <<env, trial, build, notSearch>>

\* get_expected_points on the squad, or on the squad less one of its players
CallGetExpectedPoints ==
    /\ outcome = no_call
    /\ \E gw \in 1..env.weeks, bench_boost \in BOOLEAN, triple_captain \in BOOLEAN,
          id \in {0, 1, 6, 20} :
         LET self == Squad_remove_player(env.squad, id).squad
         IN  outcome' = [fn |-> "get_expected_points", self |-> self,
                       result |-> Squad_get_expected_points(self, gw, bench_boost,
                                                            triple_captain)]
    /\ UNCHANGED <<env, trial, build, notSearch>>

SearchIdle ==
    /\ env = [weeks |-> 0]
    /\ outcome = no_call
    /\ trial = [pc |-> "idle"]
    /\ build = [pc |-> "idle"]

(***************************************************************************)
(* make_new_squad(budget, num_iterations = 1, tag, gw_range), one step per *)
(* pass of its `while not t.is_complete()` loop.                           *)
(***************************************************************************)
positions == <<"FWD", "MID", "DEF", "GK">>

\* `pp[0] in excluded_player_ids`: pp[0] is a Player (the searches read
\* pp[0].player_id), the list holds player ids, and Player defines no
\* __eq__: the test is False whatever the list holds
in_excluded(id, excluded_player_ids) == FALSE

\* `for pp in predicted_points[pos]: t.add_player(pp[0]); if
\* t.num_position[pos] == TOTAL_PER_POSITION[pos]: break`, from index k on
RECURSIVE fill_position(_, _, _, _, _)
fill_position(t, pos, list, excluded_player_ids, k) ==
    IF k > Len(list) THEN t
    ELSE IF in_excluded(list[k], excluded_player_ids)
         THEN fill_position(t, pos, list, excluded_player_ids, k + 1)
    ELSE LET added == Squad_add_player(t, list[k]).squad
         IN  IF added.num_position[pos] = TOTAL_PER_POSITION[pos] THEN added
             ELSE fill_position(added, pos, list, excluded_player_ids, k + 1)

\* `for pos in positions:` of lines 535-542 and of lines 567-575 (a position
\* that misses nobody is skipped), from the p-th position on
RECURSIVE fill_up(_, _, _)
fill_up(t, excluded_player_ids, p) ==
    IF p > Len(positions) THEN t
    ELSE LET pos == positions[p]
             filled == IF TOTAL_PER_POSITION[pos] - t.num_position[pos] = 0 THEN t
                       ELSE fill_position(t, pos, get_predicted_points(pos),
                                          excluded_player_ids, 1)
         IN  with(filled, LAMBDA f : fill_up(f, excluded_player_ids, p + 1))

\* lines 555-562: every candidate of the position that is strictly cheaper
\* than the player removed is added, if add_player accepts it
RECURSIVE add_cheaper(_, _, _, _)
add_cheaper(t, list, remove_cost, k) ==
    IF k > Len(list) THEN t
    ELSE IF env.price[list[k]] >= remove_cost THEN add_cheaper(t, list, remove_cost, k + 1)
    ELSE add_cheaper(Squad_add_player(t, list[k]).squad, list, remove_cost, k + 1)

\* one pass of the while loop, t.players[index] being the player removed
repair(t, excluded_player_ids, index) ==
    LET player_to_remove == t.players[index]
        removed == Squad_remove_player(t, player_to_remove.player_id).squad
        excluded == excluded_player_ids \cup {player_to_remove.player_id}
        cheaper == add_cheaper(removed, get_predicted_points(player_to_remove.position),
                               player_to_remove.purchase_price, 1)
    IN  [t |-> fill_up(cheaper, excluded, 1), excluded_player_ids |-> excluded]

\* the players cost 1, those predicted 4 points a gameweek cost 2
BuildData ==
    {[weeks |-> weeks,
      points |-> [id \in PlayerIds |-> steady(id, weeks)],
      price |-> [id \in PlayerIds |-> IF id % 3 = 2 THEN 2 ELSE 1],
      squad |-> Squad(0),
      bench_boost_gw |-> bench_boost_gw,
      triple_captain_gw |-> NoGw] : weeks \in 1..MaxHorizon, bench_boost_gw \in {NoGw, 1}}

BuildInit ==
    /\ env \in BuildData
    /\ outcome = no_call
    /\ trial = [pc |-> "idle"]
    /\ \E money \in BuildBudgets : build = [pc |-> "call", budget |-> money]

\* lines 520-542: t = Squad(budget), filled up from the front
NewSquadFill ==
    /\ build.pc = "call"
    /\ build' = [pc |-> "while", budget |-> build.budget,
                 t |-> fill_up(Squad(build.budget), {}, 1), excluded_player_ids |-> {},
                 passes |-> 0]
    /\ UNCHANGED <<env, outcome, trial, notSearch>>

\* lines 545-575: random.randint(0, len(t.players) - 1) raises ValueError
\* when t has no player.  The code counts no passes; the model follows the
\* first MaxPasses of them.
NewSquadRepair ==
    /\ build.pc = "while"
    /\ ~Squad_is_complete(build.t)
    /\ build.passes < MaxPasses
    /\ IF Len(build.t.players) = 0
       THEN build' = [build EXCEPT !.pc = "raised"]
       ELSE \E index \in 1..Len(build.t.players) :
              LET next == repair(build.t, build.excluded_player_ids, index)
              IN  build' = [build EXCEPT !.t = next.t,
                                         !.excluded_player_ids = next.excluded_player_ids,
                                         !.passes = @ + 1]
    /\ UNCHANGED <<env, outcome, trial, notSearch>>

\* lines 576-600: the complete squad is scored and returned if it scores
\* more than best_score = 0.0
NewSquadReturn ==
    /\ build.pc = "while"
    /\ Squad_is_complete(build.t)
    /\ LET score == horizon_points(build.t, 1).total
       IN  build' = [pc |-> "returned", budget |-> build.budget, score |-> score,
                     best_squad |-> IF score > 0 THEN Some(build.t) ELSE None]
    /\ UNCHANGED <<env, outcome, trial, notSearch>>

(***************************************************************************)
(* make_random_transfers(squad, tag, nsubs, gw_range, num_iter = 1): one   *)
(* step for the players removed, one per pass of `while not                *)
(* complete_squad`, one for the score and the return.                      *)
(***************************************************************************)
max_tries == 100

\* the sequences of n distinct indexes into a list of `len`, in the order
\* they were drawn
RECURSIVE draws(_, _)
draws(len, n) ==
    IF n = 0 THEN {<< >>}
    ELSE {Append(d, x) : <<d, x>> \in {<<d, x>> \in draws(len, n - 1) \X (1..len) :
                                          \A k \in 1..Len(d) : d[k] # x}}

\* lines 351-357: the players at the indexes drawn are removed in turn
RECURSIVE remove_drawn(_, _, _, _)
remove_drawn(squad, shrunk, players_to_remove, k) ==
    IF k > Len(players_to_remove) THEN shrunk
    ELSE remove_drawn(squad,
                      Squad_remove_player(shrunk,
                                          squad.players[players_to_remove[k]].player_id).squad,
                      players_to_remove, k + 1)

\* lines 370-378: one candidate drawn per position needed, each added if
\* add_player accepts it: the squad and the players added
RECURSIVE add_drawn(_, _, _, _)
add_drawn(sofar, positions_needed, drawn, k) ==
    IF k > Len(positions_needed) THEN sofar
    ELSE LET pid_to_add == trial.predicted_points[positions_needed[k]][drawn[k]]
             added == Squad_add_player(sofar.squad, pid_to_add)
         IN  add_drawn([squad |-> added.squad,
                        added_players |-> IF added.ok
                                          THEN Append(sofar.added_players, pid_to_add)
                                          ELSE sofar.added_players],
                       positions_needed, drawn, k + 1)

\* lines 385-391: the players added are taken out again
RECURSIVE take_out(_, _, _)
take_out(squad, added_players, k) ==
    IF k > Len(added_players) THEN squad
    ELSE take_out(Squad_remove_player(squad, added_players[k]).squad, added_players, k + 1)

\* the goalkeepers 1 and 3 cost 1 or 3, everybody else 1; the squad was
\* bought at 1 each and has nothing in the bank
TrialData ==
    {[weeks |-> weeks,
      points |-> [id \in PlayerIds |-> steady(id, weeks)],
      price |-> [id \in PlayerIds |-> IF id \in {1, 3} THEN price_1 ELSE 1],
      squad |-> given_squad(0),
      bench_boost_gw |-> NoGw,
      triple_captain_gw |-> NoGw] : weeks \in 1..MaxHorizon, price_1 \in {1, 3}}

TrialInit ==
    /\ env \in TrialData
    /\ outcome = no_call
    /\ build = [pc |-> "idle"]
    /\ \E nsubs \in 1..MaxSubs : trial = [pc |-> "call", nsubs |-> nsubs]

\* lines 336-367
TrialRemove ==
    /\ trial.pc = "call"
    /\ \E players_to_remove \in draws(Len(env.squad.players), trial.nsubs) :
          trial' = [pc |-> "while",
                    removed_players |-> [k \in 1..trial.nsubs |->
                                           env.squad.players[players_to_remove[k]].player_id],
                    positions_needed |-> [k \in 1..trial.nsubs |->
                                            env.squad.players[players_to_remove[k]].position],
                    new_squad |-> remove_drawn(env.squad, env.squad, players_to_remove, 1),
                    predicted_points |->
                        [pos \in {env.squad.players[players_to_remove[k]].position :
                                      k \in 1..trial.nsubs} |-> get_predicted_points(pos)],
                    added_players |-> << >>,
                    attempt |-> 0]
    /\ UNCHANGED <<env, outcome, build, notSearch>>

\* lines 368-391, one pass
TrialAttempt ==
    /\ trial.pc = "while"
    /\ \E drawn \in [1..Len(trial.positions_needed) -> 1..6] :
          /\ \A k \in 1..Len(drawn) :
                 drawn[k] <= Len(trial.predicted_points[trial.positions_needed[k]])
          /\ LET tried == add_drawn([squad |-> trial.new_squad, added_players |-> << >>],
                                     trial.positions_needed, drawn, 1)
             IN  IF Squad_is_complete(tried.squad)
                 THEN trial' = [pc |-> "score", new_squad |-> tried.squad,
                                removed_players |-> trial.removed_players,
                                added_players |-> tried.added_players, capped |-> FALSE]
                 ELSE IF trial.attempt + 1 > max_tries
                 THEN trial' = [pc |-> "score", new_squad |-> env.squad,
                                removed_players |-> trial.removed_players,
                                added_players |-> tried.added_players, capped |-> TRUE]
                 ELSE trial' = [trial EXCEPT
                                  !.new_squad = take_out(tried.squad, tried.added_players, 1),
                                  !.added_players = << >>,
                                  !.attempt = @ + 1]
    /\ UNCHANGED <<env, outcome, build, notSearch>>

\* lines 393-420: best_score = 0.0, best_squad = None, best_pid_out = [],
\* best_pid_in = [] unless the trial scores more
TrialReturn ==
    /\ trial.pc = "score"
    /\ LET scored == horizon_points(trial.new_squad, 1)
       IN  trial' = IF scored.total > 0
                    THEN [pc |-> "returned", capped |-> trial.capped,
                          best_squad |-> Some(scored.squad),
                          best_pid_out |-> trial.removed_players,
                          best_pid_in |-> trial.added_players]
                    ELSE [pc |-> "returned", capped |-> trial.capped, best_squad |-> None,
                          best_pid_out |-> << >>, best_pid_in |-> << >>]
    /\ UNCHANGED <<env, outcome, build, notSearch>>


(***************************************************************************)
(* Specifications.                                                         *)
(***************************************************************************)
(***************************************************************************)
(* The tree of directive paths, explored level by level by one process:    *)
(* the items of a level are the children of the nodes of the level before. *)
(***************************************************************************)
LevelInit ==
    /\ num_weeks \in 1..MaxWeeks
    /\ cards_allowed \in SUBSET AllCards
    /\ num_thread = 1
    /\ num_free_transfers \in {1, 2}
    /\ gain = 3
    /\ queue = << >>
    /\ pc = [w \in Procs |-> "unused"]
    /\ status = [w \in Procs |-> no_status]
    /\ files = << >>
    /\ cpc = "idle"
    /\ best_strategy = None
    /\ table = None
    /\ crashes = 0
    /\ frontier = {root_item}
    /\ level = 0

seq_items(q) == {q[i] : i \in 1..Len(q)}

\* every item of the level is taken and its children are put (lines 232-260)
Expand ==
    /\ level < num_weeks
    /\ frontier' = UNION {seq_items(children(node_of(it))) : it \in frontier}
    /\ level' = level + 1
    /\ UNCHANGED notLevels

\* the sids of the leaf files the items of the last level are written to
leaf_sids == {node_of(it).sid : it \in frontier}

LevelIdle == frontier = {} /\ level = 0

Init == TreeInit /\ SquadIdle /\ LevelIdle /\ CallsIdle /\ ApplyIdle /\ SearchIdle

Next ==
    \/ \E w \in Workers : Poll(w)
    \/ \E w \in Workers : Get(w)
    \/ \E w \in Workers : Check(w)
    \/ \E w \in Workers : Work(w)
    \/ PutRoot
    \/ Join
    \/ FindBest
    \/ Fill
    \/ Cleanup

Spec == Init /\ [][Next]_vars

\* the same, with workers that may die while they process an item
NextCrash ==
    \/ Next
    \/ \E w \in Workers : Crash(w)

SpecCrash == Init /\ [][NextCrash]_vars

\* the same as Spec, every live process being scheduled again and again
FairSpec ==
    /\ Spec
    /\ \A w \in Procs : WF_vars(Worker(w))
    /\ WF_vars(Coordinator)

\* sequences of add_player / remove_player calls on one Squad
InitSquad == SquadInit /\ TreeIdle /\ LevelIdle /\ CallsIdle /\ ApplyIdle /\ SearchIdle

NextSquad == AddPlayer \/ RemovePlayer

SpecSquad == InitSquad /\ [][NextSquad]_vars

\* the tree level by level
InitLevels == LevelInit /\ SquadIdle /\ CallsIdle /\ ApplyIdle /\ SearchIdle

NextLevels == Expand

SpecLevels == InitLevels /\ [][NextLevels]_vars

\* single calls of the functions
InitCalls == CallsInit /\ TreeIdle /\ SquadIdle /\ LevelIdle /\ ApplyIdle /\ SearchIdle

NextCalls ==
    \/ CallPointsHit
    \/ CallFreeTransfers
    \/ CallMakeBestTransfers
    \/ CallCountExpectedOutputs

SpecCalls == InitCalls /\ [][NextCalls]_vars

\* one call of apply_strategy, on prediction data with gain 0 or 3
PredictionsInit ==
    /\ num_thread = 1
    /\ num_weeks = 1
    /\ cards_allowed = {}
    /\ num_free_transfers = 1
    /\ gain \in {0, 3}
    /\ queue = << >>
    /\ pc = [w \in Procs |-> "unused"]
    /\ status = [w \in Procs |-> no_status]
    /\ files = << >>
    /\ cpc = "idle"
    /\ best_strategy = None
    /\ table = None
    /\ crashes = 0

InitApply == ApplyInit /\ PredictionsInit /\ SquadIdle /\ LevelIdle /\ CallsIdle /\ SearchIdle

NextApply ==
    \/ ApplyGameweek
    \/ ApplyReturn

SpecApply == InitApply /\ [][NextApply]_vars

\* single calls of the exhaustive searches and of get_expected_points
InitSearch ==
    /\ SearchInit /\ trial = [pc |-> "idle"] /\ build = [pc |-> "idle"]
    /\ TreeIdle /\ SquadIdle /\ LevelIdle /\ CallsIdle /\ ApplyIdle

NextSearch ==
    \/ CallSingleTransfer
    \/ CallGetExpectedPoints

SpecSearch == InitSearch /\ [][NextSearch]_vars

\* one call of make_optimum_double_transfer
InitDouble ==
    /\ DoubleInit /\ trial = [pc |-> "idle"] /\ build = [pc |-> "idle"]
    /\ TreeIdle /\ SquadIdle /\ LevelIdle /\ CallsIdle /\ ApplyIdle

NextDouble ==
    \/ DoubleStart
    \/ DoubleRow
    \/ DoubleReturn

SpecDouble == InitDouble /\ [][NextDouble]_vars

\* make_new_squad
InitBuild ==
    /\ BuildInit
    /\ TreeIdle /\ SquadIdle /\ LevelIdle /\ CallsIdle /\ ApplyIdle

NextBuild ==
    \/ NewSquadFill
    \/ NewSquadRepair
    \/ NewSquadReturn

SpecBuild == InitBuild /\ [][NextBuild]_vars

\* make_random_transfers
InitTrial ==
    /\ TrialInit
    /\ TreeIdle /\ SquadIdle /\ LevelIdle /\ CallsIdle /\ ApplyIdle

NextTrial ==
    \/ TrialRemove
    \/ TrialAttempt
    \/ TrialReturn

SpecTrial == InitTrial /\ [][NextTrial]_vars

(***************************************************************************)
(* Reference definitions for the claims on the tree search.                *)
(***************************************************************************)
AllExited == \A w \in Workers : pc[w] = "done"

\* the directives a run with these cards may use in a gameweek
Directives(cards) ==
    {Int_(n) : n \in 0..2}
    \cup (IF "wildcard" \in cards THEN {WildcardD} ELSE {})
    \cup (IF "free_hit" \in cards THEN {FreeHitD} ELSE {})
    \cup (IF "triple_captain" \in cards THEN {Chip("T", n) : n \in 0..2} ELSE {})
    \cup (IF "bench_boost" \in cards THEN {Chip("B", n) : n \in 0..2} ELSE {})

\* the legal directive paths of length n: every enabled chip at most once
LegalPaths(n, cards) ==
    {path \in [1..n -> Directives(cards)] :
        \A letter \in {"W", "F", "T", "B"} :
            Cardinality({i \in 1..n : path[i].c = letter}) <= 1}

\* the path an item stands for: the sid of the node it becomes
path_of(item) == IF item.starting THEN << >> ELSE Append(item.sid, item.num_transfers)

\* the items not yet processed: on the queue, or held by a worker
Pending ==
    queue \o
    [k \in 1..Cardinality({w \in Workers : pc[w] = "work"}) |->
        status[CHOOSE w \in Workers :
                  /\ pc[w] = "work"
                  /\ Cardinality({v \in Workers : pc[v] = "work" /\ v < w}) = k - 1]]

\* the leaf files of the subtree of an item, computed by one process
RECURSIVE leaves_of(_)
leaves_of(item) ==
    LET node == node_of(item)
        kids == children(node)
    IN  IF node.depth >= num_weeks THEN {<<node.sid, node.strat_dict>>}
        ELSE UNION {leaves_of(kids[i]) : i \in 1..Len(kids)}

\* OUTPUT_DIR as one process leaves it
RefFiles ==
    LET leaves == leaves_of(root_item)
    IN  [sid \in {l[1] : l \in leaves} |->
            (CHOOSE l \in leaves : l[1] = sid)[2]]

RefBest == CHOOSE best \in best_strats(RefFiles) : TRUE

\* Whatever the number of workers and their interleaving, once all workers
\* have exited the leaf files are those one process writes.
LeafFilesDetermined ==
    (AllExited /\ cpc # "end") => files = RefFiles

(***************************************************************************)
(* C1.  Termination of the tree search: with no worker crash, every        *)
(* execution eventually reaches the state where all workers have exited,   *)
(* for any horizon, any enabled chips and any number of workers; no worker *)
(* stays blocked forever on the queue.                                     *)
(* Checked under FairSpec.  It fails: two workers see the same last item   *)
(* (qsize() > 0), one takes it, the other waits in queue.get() for ever.   *)
(***************************************************************************)
C1_Termination == <>AllExited

(***************************************************************************)
(* C2.  Completeness of the tree search: at no reachable state are there   *)
(* more leaf files than the expected count, every file is named by a legal *)
(* path (0/1/2 in every gameweek plus each enabled chip at most once), no  *)
(* path is written twice (the items not yet processed stand for distinct   *)
(* paths, none of them written already), and once all workers have exited  *)
(* the files are exactly one per legal path of length num_weeks.           *)
(***************************************************************************)
C2_Completeness ==
    /\ json_count <= expected_num(num_weeks, cards_allowed)
    /\ DOMAIN files \subseteq LegalPaths(num_weeks, cards_allowed)
    /\ \A i, j \in 1..Len(Pending) :
          i # j => path_of(Pending[i]) # path_of(Pending[j])
    /\ \A i \in 1..Len(Pending) : path_of(Pending[i]) \notin DOMAIN files
    /\ (AllExited /\ cpc # "end")
          => DOMAIN files = LegalPaths(num_weeks, cards_allowed)

\* two workers have exited after a two-week run with the wildcard enabled
C2_Witness ==
    /\ AllExited
    /\ cpc = "join"
    /\ num_thread = 2
    /\ num_weeks = 2
    /\ cards_allowed = {"wildcard"}
    /\ json_count = 15

(***************************************************************************)
(* C3.  The closed-form leaf count agrees with the search: for every       *)
(* horizon length and every subset of enabled chips,                       *)
(* count_expected_outputs(0, N, ...) is the number of distinct leaf paths  *)
(* the expansion rule of optimize generates.  Checked under SpecLevels.    *)
(***************************************************************************)
C3_CountAgrees ==
    level = num_weeks =>
        /\ Cardinality(leaf_sids) = expected_num(num_weeks, cards_allowed)
        /\ Cardinality(frontier) = Cardinality(leaf_sids)

\* the last level of a three-week tree with all four chips enabled
C3_Witness ==
    /\ level = num_weeks
    /\ num_weeks = 3
    /\ cards_allowed = AllCards
    /\ Cardinality(leaf_sids) = 783

(***************************************************************************)
(* C4.  Worker-count independence: for the same squad, horizon, chips and  *)
(* deterministic transfer searches, a run with one worker and a run with   *)
(* several workers end with the same leaf files (names and contents) and   *)
(* therefore with the same best strategy.                                  *)
(* The leaf files are the same (LeafFilesDetermined); the best strategy is *)
(* not: among leaves of equal total_score find_best_strat_from_json keeps  *)
(* the one os.listdir happens to list first.                               *)
(***************************************************************************)
C4_WorkerCountIndependence ==
    /\ LeafFilesDetermined
    /\ cpc \in {"fill", "filled", "failed", "end"} => best_strategy = RefBest

(***************************************************************************)
(* C5.  Integrity on incomplete runs: when a worker dies while it          *)
(* processes an item, so that fewer leaves than expected are ever written, *)
(* the run never goes on to hand a best strategy selected from the partial *)
(* leaf set to fill_suggestion_table.  Checked under SpecCrash.            *)
(* It fails: run_optimization joins the dead worker and goes on.           *)
(***************************************************************************)
C5_IntegrityOnIncompleteRun ==
    cpc = "filled" => json_count = expected_num(num_weeks, cards_allowed)

(***************************************************************************)
(* Reference definitions for the claims on the squad.                      *)
(***************************************************************************)
\* the number of players of the roster that belong to the team
num_in_team(team) == Cardinality({i \in 1..Len(players) : players[i].team = team})

Teams == {team_of(id) : id \in PlayerIds}

\* a step that is a call of add_player which returned True
AddSucceeded == last'.op = "add" /\ last'.ok /\ Len(players') = Len(players) + 1

\* the player a successful add_player has appended
Added == players'[Len(players')]

(***************************************************************************)
(* C6.  Position quotas: after any sequence of add_player and              *)
(* remove_player calls, whatever the arguments and the check_budget /      *)
(* check_team flags, the per-position counts are those of the roster and   *)
(* never exceed GK 2, DEF 5, MID 5, FWD 3; an add_player that returns True *)
(* has added a player of a position that was below its quota, so an add    *)
(* that would exceed the quota returns False.                              *)
(***************************************************************************)
C6_PositionQuotas ==
    /\ [](/\ num_position = count_positions(players)
          /\ \A pos \in Positions : num_position[pos] <= TOTAL_PER_POSITION[pos])
    /\ [][AddSucceeded =>
             num_position[Added.position] < TOTAL_PER_POSITION[Added.position]]_vars

\* a sixth defender has been refused by a squad that holds five
C6_Witness ==
    /\ last = [op |-> "add", ok |-> FALSE, why |-> "position"]
    /\ num_position["DEF"] = 5

(***************************************************************************)
(* C7.  Team quota as the code enforces it: after any sequence of          *)
(* add_player calls made with the team check enabled and remove_player     *)
(* calls, at most 3 players of the roster share a team; an add_player made *)
(* with the team check that returns True has added a player of a team that *)
(* had fewer than 3 players, so a 4th player of a team is rejected.        *)
(***************************************************************************)
C7_TeamQuotaOfThree ==
    /\ [](team_checked => \A team \in Teams : num_in_team(team) <= 3)
    /\ [][(AddSucceeded /\ team_checked') => num_in_team(Added.team) < 3]_vars

\* a fourth player of team 1 has been refused by a squad that holds three
C7_Witness ==
    /\ team_checked
    /\ last = [op |-> "add", ok |-> FALSE, why |-> "team"]
    /\ num_in_team(1) = 3

\* C7 as stated: with the team check enabled at most 2 players share a team
\* (a 3rd player of a team that already has 2 is rejected)
C7_TeamQuotaOfTwo ==
    team_checked => \A team \in Teams : num_in_team(team) <= 2

(***************************************************************************)
(* C8.  Budget: for every sequence of add_player calls made with the       *)
(* budget check enabled and remove_player calls, with non-negative prices, *)
(* on a squad created with a non-negative budget, the budget is            *)
(* non-negative after every call.                                          *)
(***************************************************************************)
C8_BudgetNonNegative == budget_checked => budget >= 0

\* a checked purchase has spent the budget to the last unit
C8_Witness ==
    /\ budget_checked
    /\ last = [op |-> "add", ok |-> TRUE, why |-> "ok"]
    /\ budget = 0
    /\ \E i \in 1..Len(players) : players[i].purchase_price = 3

(***************************************************************************)
(* C9.  No duplicates: after any sequence of add_player and remove_player  *)
(* calls no two players of the roster have the same player id; an          *)
(* add_player that returns True has added an id the roster did not hold,   *)
(* so adding an id of the roster returns False whatever the flags.         *)
(***************************************************************************)
C9_NoDuplicates ==
    /\ [](\A i, j \in 1..Len(players) :
             i # j => players[i].player_id # players[j].player_id)
    /\ [][AddSucceeded =>
             \A i \in 1..Len(players) : players[i].player_id # Added.player_id]_vars

\* an id of the roster has been refused
C9_Witness ==
    /\ last = [op |-> "add", ok |-> FALSE, why |-> "duplicate"]
    /\ Len(players) >= 1

(***************************************************************************)
(* C10.  Failure is a value and changes nothing: an add_player rejected    *)
(* for a duplicate id, the position quota, the budget or the team quota,   *)
(* and a remove_player of an id that is not in the roster, return False    *)
(* and leave the roster, the per-position counts and the budget as they    *)
(* were.                                                                   *)
(***************************************************************************)
C10_FailureChangesNothing ==
    [][(last'.op \in {"add", "remove"} /\ ~last'.ok) =>
          /\ UNCHANGED <<players, num_position, budget>>
          /\ last'.why \in {"duplicate", "position", "budget", "team", "absent"}]_vars

\* a purchase has been refused for its cost by a squad with money and players
C10_Witness ==
    /\ last = [op |-> "add", ok |-> FALSE, why |-> "budget"]
    /\ budget > 0
    /\ Len(players) >= 1

(***************************************************************************)
(* C11.  Sale price: a successful remove_player without an explicit price  *)
(* credits the budget with the current market price when that is not above *)
(* the purchase price, and otherwise with the midpoint of purchase and     *)
(* current price rounded to an integer, a value between the two; with an   *)
(* explicit price it credits exactly that price; in both cases the         *)
(* position count of the removed player decreases by 1 and no other count  *)
(* changes.                                                                *)
(* It fails for the explicit price 0: `if price:` takes 0 for no price and *)
(* the sale price is credited instead.                                     *)
(***************************************************************************)
C11_SalePrice ==
    [][(last'.op = "remove" /\ last'.ok) =>
          LET p      == sold'.player
              credit == budget' - budget
              bought == p.purchase_price
              now    == sold'.price_now
          IN  /\ sold'.price.given => credit = sold'.price.value
              /\ (~sold'.price.given /\ now # 0) =>
                    IF now <= bought THEN credit = now
                    ELSE /\ 2 * credit \in {now + bought - 1, now + bought}
                         /\ bought <= credit /\ credit <= now
              /\ num_position' = [num_position EXCEPT ![p.position] = @ - 1]]_vars

(***************************************************************************)
(* Reference definitions for the claims on single calls.                   *)
(***************************************************************************)
\* the directives of the tree search as the specification lists them
Recognised ==
    {Int_(0), Int_(1), Int_(2), WildcardD, FreeHitD,
     Chip("T", 0), Chip("T", 1), Chip("B", 0), Chip("B", 1)}

clamp(x, lo, hi) == IF x < lo THEN lo ELSE IF x > hi THEN hi ELSE x

RECURSIVE Pow3(_)
Pow3(n) == IF n = 0 THEN 1 ELSE 3 * Pow3(n - 1)

(***************************************************************************)
(* C12.  points_hit: for every free-transfer count f the result is 0 for   *)
(* Wildcard and FreeHit and for 0 transfers; for an integer count n it is  *)
(* 4*(n-f) when n > f and 0 otherwise; for a TripleCaptain / BenchBoost    *)
(* directive it is the same formula applied to the transfer count the      *)
(* directive carries.                                                      *)
(***************************************************************************)
C12_PointsHit ==
    (call.fn = "calc_points_hit" /\ call.num_transfers # UnknownD) =>
        LET d == call.num_transfers
            n == d.n
            f == call.free_transfers
        IN  /\ ~call.result.raised
            /\ d \in {WildcardD, FreeHitD} => call.result.value = 0
            /\ d \notin {WildcardD, FreeHitD} =>
                  call.result.value = IF n > f THEN 4 * (n - f) ELSE 0
            /\ d = Int_(0) => call.result.value = 0

\* "T2" with one free transfer costs 4 points
C12_Witness ==
    /\ call.fn = "calc_points_hit"
    /\ call.num_transfers = Chip("T", 2)
    /\ call.free_transfers = 1
    /\ call.result = Return(4)

(***************************************************************************)
(* C13.  free_transfers_next: for every directive the code recognises and  *)
(* every previous free-transfer count >= 0 the result is 1 after Wildcard  *)
(* and FreeHit and clamp(1 + prevFree - n, [1,2]) otherwise, hence always  *)
(* 1 or 2.                                                                 *)
(***************************************************************************)
C13_FreeTransfersNext ==
    (call.fn = "calc_free_transfers" /\ call.num_transfers # UnknownD) =>
        LET d == call.num_transfers
            prev == call.free_transfers
        IN  /\ ~call.result.raised
            /\ call.result.value =
                  IF d \in {WildcardD, FreeHitD} THEN 1
                  ELSE clamp(1 + prev - d.n, 1, 2)
            /\ call.result.value \in {1, 2}

\* no transfer with 3 free transfers in hand: still only 2 the week after
C13_Witness ==
    /\ call.fn = "calc_free_transfers"
    /\ call.num_transfers = Int_(0)
    /\ call.free_transfers = 3
    /\ call.result = Return(2)

\* ... and so the count carried along a path of the tree is 1 or 2 after
\* the first gameweek (optimize, line 215); stated for SpecLevels and Spec.
FreeTransfersOnPaths ==
    /\ \A it \in frontier :
          /\ ~it.starting => node_of(it).free_transfers \in {1, 2}
          /\ level >= 2 => it.free_transfers \in {1, 2}
    /\ \A i \in 1..Len(queue) :
          Len(queue[i].sid) >= 1 => queue[i].free_transfers \in {1, 2}

(***************************************************************************)
(* C14.  Unrecognised directive: for any directive that is not one of      *)
(* 0, 1, 2, Wildcard, FreeHit, TripleCaptain with 0 or 1 transfers,        *)
(* BenchBoost with 0 or 1 transfers, calc_points_hit, calc_free_transfers  *)
(* and make_best_transfers each stop with an error and return nothing.     *)
(* It fails: the int 3 is priced by calc_points_hit and counted by         *)
(* calc_free_transfers like any other int, and so is "T3".                 *)
(***************************************************************************)
C14_UnrecognisedDirective ==
    (/\ call.fn \in {"calc_points_hit", "calc_free_transfers", "make_best_transfers"}
     /\ call.num_transfers \notin Recognised)
        => call.result.raised

(***************************************************************************)
(* C15.  With no chips enabled count_expected_outputs(0, N, False, False,  *)
(* False, False) is 3^N exactly, for N = 1..MaxCountWeeks.                 *)
(***************************************************************************)
C15_ThreeToTheN ==
    (call.fn = "count_expected_outputs" /\ call.cards = {}) =>
        call.result = Pow3(call.max_week)

\* five gameweeks without chips: 243 leaves
C15_Witness ==
    /\ call.fn = "count_expected_outputs"
    /\ call.cards = {}
    /\ call.max_week = 5
    /\ call.result = 243

(***************************************************************************)
(* C16.  Chips are one-time per path: on every path the tree search        *)
(* explores (every item on the queue or held by a worker, every leaf file) *)
(* each of Wildcard, FreeHit, TripleCaptain and BenchBoost occurs in at    *)
(* most one gameweek, and a chip directive is on a path only when that     *)
(* chip is enabled for the run.                                            *)
(***************************************************************************)
ExploredPaths == {path_of(Pending[i]) : i \in 1..Len(Pending)} \cup DOMAIN files

card_of(letter) ==
    CASE letter = "W" -> "wildcard"
      [] letter = "F" -> "free_hit"
      [] letter = "T" -> "triple_captain"
      [] letter = "B" -> "bench_boost"

C16_ChipsOncePerPath ==
    \A path \in ExploredPaths :
        \A letter \in {"W", "F", "T", "B"} :
            LET weeks == {i \in 1..Len(path) : path[i].c = letter}
            IN  /\ Cardinality(weeks) <= 1
                /\ weeks # {} => card_of(letter) \in cards_allowed

\* the leaf "W-2" is written while the item "2-W" is still to be processed
C16_Witness ==
    /\ <<WildcardD, Int_(2)>> \in DOMAIN files
    /\ <<Int_(2), WildcardD>> \in {path_of(Pending[i]) : i \in 1..Len(Pending)}

(***************************************************************************)
(* Claims on apply_strategy.                                               *)
(***************************************************************************)
\* the call of apply_strategy is over: it returned or it raised
ApplyOver == apc \in {"returned", "raised"}

\* the gameweeks of the plan with FreeHit that are not the last one
FreeHitWeeks == {g \in 1..(Len(strat.dict) - 1) : strat.dict[g] = FreeHitD}

\* Whenever the gameweek after a FreeHit is processed, it starts from the
\* squad the FreeHit gameweek started from, and the gameweek after that one
\* starts from the squad the gameweek after the FreeHit ended with.
FreeHitRestoredWhenReached ==
    \A g \in FreeHitWeeks :
        /\ Len(applied) >= g + 1 => applied[g + 1].from = applied[g].from
        /\ Len(applied) >= g + 2 /\ strat.dict[g + 1] /= FreeHitD
              => applied[g + 2].from = applied[g + 1].squad

\* C17: for any plan that plays FreeHit at a gameweek g that is not the last
\* one, once apply_strategy is over gameweek g+1 was applied and scored from
\* the squad as it stood immediately before the FreeHit, not from the FreeHit
\* squad, and the snapshot was used for that one gameweek only.
C17_FreeHitSingleGameweek ==
    ApplyOver =>
        \A g \in FreeHitWeeks :
            /\ Len(applied) >= g + 1
            /\ applied[g + 1].from = applied[g].from
            /\ applied[g + 1].from /= applied[g].squad
            /\ Len(applied) >= g + 2 /\ strat.dict[g + 1] /= FreeHitD
                  => applied[g + 2].from = applied[g + 1].squad

(***************************************************************************)
(* Claims on FreeHit, the chips and the all-zero plan in the tree search.  *)
(***************************************************************************)
\* the squad after the transfers of the first k gameweeks of a path are
\* applied to the starting squad, FreeHit leaving no transfer behind
RECURSIVE transfers_applied(_, _)
transfers_applied(path, k) ==
    IF k = 0 THEN starting_squad
    ELSE LET before == transfers_applied(path, k - 1)
             d == path[k]
         IN  IF d.c \in {"N", "T", "B"} /\ d.n > 0
             THEN make_optimum_transfer(before, d.n, k, d.c = "T", d.c = "B")
             ELSE before

\* C18: on any explored path that plays FreeHit at a gameweek g that is not
\* the first or the last one, the squad from which gameweek g+1 continues is
\* the squad as it stood after the transfers of gameweek g-1 were applied:
\* every transfer made on the path before the FreeHit is still in effect.
\* (Paths with a Wildcard before the FreeHit are left out.)
C18_FreeHitKeepsEarlierTransfers ==
    \A it \in frontier :
        LET g == Len(it.sid)
        IN  /\ g >= 2
            /\ it.sid[g] = FreeHitD
            /\ \A k \in 1..g : it.sid[k] /= WildcardD
            => it.squad = transfers_applied(it.sid, g - 1)

\* C19: the score recorded for a gameweek whose directive plays
\* TripleCaptain (resp. BenchBoost) is the expected points of the squad with
\* the captain counted three times (resp. with the bench added), less the
\* points hit, for every transfer count the chip comes with, 0 included;
\* the score of a gameweek with any other directive is without the chip.
C19_ChipScoring ==
    \A it \in frontier :
        ~it.starting =>
            LET nt == it.num_transfers
                gw == Len(it.sid) + 1
                node == node_of(it)
            IN  node.strat_dict.points_per_gw[gw] =
                    get_expected_points(node.new_squad, gw, nt.c = "T", nt.c = "B")
                    - calc_points_hit(nt, it.free_transfers).value

\* the same for the directives that come with a transfer, or with no chip
ChipScoringWithTransfers ==
    \A it \in frontier :
        ~it.starting /\ it.num_transfers \notin {Chip("T", 0), Chip("B", 0)} =>
            LET nt == it.num_transfers
                gw == Len(it.sid) + 1
                node == node_of(it)
            IN  node.strat_dict.points_per_gw[gw] =
                    get_expected_points(node.new_squad, gw, nt.c = "T", nt.c = "B")
                    - calc_points_hit(nt, it.free_transfers).value

AllZero(path) == \A k \in 1..Len(path) : path[k] = Int_(0)

\* C20: for a plan whose directive is 0 in every gameweek the squad after
\* every gameweek is the starting squad (roster and budget), players_in and
\* players_out of every gameweek are empty, no chip is recorded, and the
\* points hit is 0 in every gameweek (the score recorded is the expected
\* points, nothing subtracted) for any initial free-transfer count.
C20_AllZeroPlan ==
    /\ \A f \in 0..MaxArg : calc_points_hit(Int_(0), f) = Return(0)
    /\ \A it \in frontier :
          ~it.starting /\ AllZero(it.sid) /\ it.num_transfers = Int_(0) =>
              LET node == node_of(it)
                  sd == node.strat_dict
              IN  /\ it.squad = starting_squad
                  /\ node.new_squad = starting_squad
                  /\ \A g \in 1..Len(node.sid) :
                        /\ sd.players_in[g] = << >>
                        /\ sd.players_out[g] = << >>
                        /\ sd.cards_played[g] = "None"
                        /\ sd.points_per_gw[g] =
                              get_expected_points(starting_squad, g, FALSE, FALSE)

\* the plan 0-0-0 of a run that starts with 2 free transfers and may play
\* every chip is a leaf
C20_Witness ==
    /\ num_free_transfers = 2
    /\ cards_allowed = AllCards
    /\ \E it \in frontier : node_of(it).sid = <<Int_(0), Int_(0), Int_(0)>>

\* the same plan given to apply_strategy: the call does not raise, every
\* gameweek starts from and ends with the starting squad, and what is
\* recorded for it is empty lists, no chip and the expected points
AllZeroPlanApplied ==
    apc /= "idle" /\ AllZero(strat.dict) =>
        /\ apc /= "raised"
        /\ new_squad = starting_squad
        /\ \A g \in 1..Len(applied) :
              /\ applied[g].from = starting_squad
              /\ applied[g].squad = starting_squad
              /\ strategy_output.players_in[g] = << >>
              /\ strategy_output.players_out[g] = << >>
              /\ strategy_output.cards_played[g] = "None"
              /\ strategy_output.points_per_gw[g] =
                    get_expected_points(starting_squad, g, FALSE, FALSE)
        /\ apc = "returned" => Len(applied) = Len(strat.dict)

(***************************************************************************)
(* Claims on the searches and on get_expected_points.                      *)
(***************************************************************************)
\* the squads one swap can make of a squad: one player out, one player of
\* the same position in, whom add_player accepts
AllSwaps(squad) ==
    {Squad_add_player(Squad_remove_player(squad, squad.players[i].player_id).squad, id).squad :
        <<i, id>> \in {<<i, id>> \in (1..Len(squad.players)) \X PlayerIds :
              /\ position_of(id) = squad.players[i].position
              /\ id # squad.players[i].player_id
              /\ Squad_add_player(Squad_remove_player(squad, squad.players[i].player_id).squad,
                                  id).ok}}

SingleReturned ==
    /\ outcome.fn = "make_optimum_single_transfer"
    /\ ~outcome.result.raised

\* C21: the squad the single-transfer search returns has the maximum
\* discounted total over the gameweeks of the range among the squads of all
\* swaps of one player for a same-position candidate that the budget and
\* the team limit allow.
C21_SingleTransferOptimum ==
    SingleReturned =>
        \A swapped \in AllSwaps(env.squad) :
            horizon_points(swapped, 1).total <= outcome.result.best_score

\* the position counts of a squad, summed
position_count(self) ==
    self.num_position["GK"] + self.num_position["DEF"] + self.num_position["MID"]
        + self.num_position["FWD"]

\* C22: get_expected_points on a squad whose position counts do not sum to
\* 15 raises and leaves every is_starting, is_captain and is_vice_captain
\* flag as it was; on a squad whose counts sum to 15 it does not raise.
C22_ExpectedPointsNeedsCompleteness ==
    outcome.fn = "get_expected_points" =>
        IF position_count(outcome.self) # 15
        THEN outcome.result.raised /\ outcome.result.squad = outcome.self
        ELSE ~outcome.result.raised

\* a call on a squad of 14 has raised
C22_Witness ==
    /\ outcome.fn = "get_expected_points"
    /\ position_count(outcome.self) = 14
    /\ outcome.result.raised

(***************************************************************************)
(* Result selection on the leaf files of a one-gameweek run whose          *)
(* predictions are low: the starting squad is predicted `points` in the    *)
(* gameweek, the leaves are those of the directives 0, 1 and 2, and any    *)
(* subset of them has been written (a worker may have died).               *)
(***************************************************************************)
leaf_of(n, points) ==
    LET node == node_of(Item(Int_(n), num_free_transfers, starting_squad,
                             empty_strat_dict, << >>))
        less == get_expected_points(starting_squad, 1, FALSE, FALSE) - points
    IN  [node.strat_dict EXCEPT !.total_score = @ - less,
                                !.points_per_gw = dict_set(@, 1, @[1] - less)]

SelectInit ==
    /\ num_thread = 1
    /\ num_weeks = 1
    /\ cards_allowed = {}
    /\ num_free_transfers \in {1, 2}
    /\ gain \in {0, 3}
    /\ queue = << >>
    /\ pc = [w \in Procs |-> "done"]
    /\ status = [w \in Procs |-> no_status]
    /\ \E points \in 0..MaxPoints, written \in SUBSET {0, 1, 2} :
          files = [sid \in {<<Int_(n)>> : n \in written} |-> leaf_of(sid[1].n, points)]
    /\ cpc = "find"
    /\ best_strategy = None
    /\ table = None
    /\ crashes = 0

InitSelect ==
    SelectInit /\ SquadIdle /\ LevelIdle /\ CallsIdle /\ ApplyIdle /\ SearchIdle

NextSelect ==
    \/ FindBest
    \/ Fill

SpecSelect == InitSelect /\ [][NextSelect]_vars

\* C23: whenever at least one leaf record is persisted,
\* find_best_strat_from_json returns one of the persisted records, and no
\* persisted record has a higher total_score.
C23_ResultSelection ==
    (cpc \in {"fill", "filled", "failed"} /\ DOMAIN files # {}) =>
        /\ best_strategy # None
        /\ \E f \in DOMAIN files : best_strategy = files[f]
        /\ \A g \in DOMAIN files : files[g].total_score <= best_strategy.total_score

\* C24: make_new_squad never raises, whatever the budget (the claim also
\* asks that it ends after a bounded number of passes of its repair loop).
C24_NewSquadNeverRaises == build.pc # "raised"

\* a pass of the repair loop that leaves the incomplete squad as it found it
RepairWithoutProgress ==
    /\ build.pc = "while"
    /\ ~Squad_is_complete(build.t)
    /\ Len(build.t.players) > 0
    /\ \A index \in 1..Len(build.t.players) :
          ~Squad_is_complete(repair(build.t, build.excluded_player_ids, index).t)

\* the player ids of a squad, and of a list of ids
roster(squad) == {squad.players[i].player_id : i \in 1..Len(squad.players)}

listed_ids(list) == {list[k] : k \in 1..Len(list)}

\* <<squad, players_out, players_in>> is a valid swap of n players of `from`
valid_swap(from, squad, players_out, players_in, n) ==
    /\ position_count(squad) = 15
    /\ Len(squad.players) = 15
    /\ squad.budget >= 0
    /\ Len(players_out) = n /\ Cardinality(listed_ids(players_out)) = n
    /\ Len(players_in) = n /\ Cardinality(listed_ids(players_in)) = n
    /\ listed_ids(players_out) \subseteq roster(from)
    /\ listed_ids(players_in) \cap roster(from) = {}
    /\ roster(squad) = (roster(from) \ listed_ids(players_out)) \cup listed_ids(players_in)
    /\ \A k \in 1..n : position_of(players_in[k]) = position_of(players_out[k])

\* C25: for a complete squad and every candidate table, also one in which
\* some removed player has no feasible replacement, the exhaustive search
\* returns a valid swap: a complete squad with a budget that is not
\* negative, whose roster is the input roster with the players_out replaced
\* by the players_in of the same positions.
C25_ExhaustiveSwapValid ==
    outcome.fn = "make_optimum_single_transfer" =>
        /\ ~outcome.result.raised
        /\ valid_swap(env.squad, outcome.result.best_squad, outcome.result.best_pid_out,
                      outcome.result.best_pid_in, 1)

\* the single-transfer search returns valid swaps when it returns
SingleSwapValidWhenReturned ==
    SingleReturned =>
        valid_swap(env.squad, outcome.result.best_squad, outcome.result.best_pid_out,
                   outcome.result.best_pid_in, 1)

(***************************************************************************)
(* The greedy rule of the double-transfer search, stated on its own.       *)
(***************************************************************************)
\* the squad less its i-th and j-th players
less_pair(squad, i, j) ==
    Squad_remove_player(Squad_remove_player(squad, squad.players[i].player_id).squad,
                        squad.players[j].player_id).squad

\* the candidates that may take the second place once `first` took the first
seconds_of(squad, i, j, first) ==
    LET list_2 == get_predicted_points(squad.players[j].position)
        one_in == Squad_add_player(less_pair(squad, i, j), first).squad
    IN  {k2 \in 1..Len(list_2) :
            /\ list_2[k2] \notin {first, squad.players[i].player_id, squad.players[j].player_id}
            /\ Squad_add_player(one_in, list_2[k2]).ok}

\* the completed squads the rule has evaluated: for the pair i < j and the
\* k-th candidate of the first position, if it can be added and a second
\* candidate is feasible, the squad with the first feasible second one
evaluated(squad) ==
    LET n == Len(squad.players)
        list_of(i) == get_predicted_points(squad.players[i].position)
        first_of(i, k) == list_of(i)[k]
        tried == {<<i, j, k>> \in (1..n) \X (1..n) \X (1..6) :
                    /\ i < j
                    /\ k <= Len(list_of(i))
                    /\ first_of(i, k) \notin {squad.players[i].player_id,
                                               squad.players[j].player_id}
                    /\ Squad_add_player(less_pair(squad, i, j), first_of(i, k)).ok
                    /\ seconds_of(squad, i, j, first_of(i, k)) # {}}
        made(t) ==
            LET i == t[1]
                j == t[2]
                first == first_of(i, t[3])
                k2 == CHOOSE x \in seconds_of(squad, i, j, first) :
                          \A y \in seconds_of(squad, i, j, first) : x <= y
                second == get_predicted_points(squad.players[j].position)[k2]
                scored == horizon_points(
                    Squad_add_player(Squad_add_player(less_pair(squad, i, j), first).squad,
                                     second).squad, 1)
            IN  [at |-> (t[1] * 15 + t[2]) * 6 + t[3], squad |-> scored.squad,
                 total |-> scored.total,
                 players_out |-> <<squad.players[i].player_id, squad.players[j].player_id>>,
                 players_in |-> <<first, second>>]
    IN  {made(t) : t \in tried}

\* the evaluated squad with the highest total, the earliest of them
earliest_best(made) ==
    CHOOSE e \in made : \A o \in made : o.total < e.total \/ (o.total = e.total /\ e.at <= o.at)

DoubleReturned ==
    /\ outcome.fn = "make_optimum_double_transfer"
    /\ outcome.pc = "returned"

C27_RandomSearchConsistent ==
    /\ trial.pc = "while" => trial.attempt <= max_tries
    /\ (trial.pc = "returned" /\ trial.best_squad # None) =>
          /\ roster(trial.best_squad.squad)
                = (roster(env.squad) \ listed_ids(trial.best_pid_out))
                      \cup listed_ids(trial.best_pid_in)
          /\ trial.capped => trial.best_pid_out = << >> /\ trial.best_pid_in = << >>

\* what the random search returns from a trial that did not hit the cap
\* is consistent
RandomSearchConsistentBelowCap ==
    (trial.pc = "returned" /\ trial.best_squad # None /\ ~trial.capped) =>
          roster(trial.best_squad.squad)
                = (roster(env.squad) \ listed_ids(trial.best_pid_out))
                      \cup listed_ids(trial.best_pid_in)

(***************************************************************************)
(* Hit and carry along a path, recomputed from the sid alone.              *)
(***************************************************************************)
\* 4 points per transfer beyond the free ones, nothing for a rebuilt squad
hit_of(d, f) == IF d.c \in {"W", "F"} THEN 0 ELSE IF d.n > f THEN 4 * (d.n - f) ELSE 0

\* one more free transfer a week, less those used, kept within 1..2; 1 after
\* a rebuilt squad
carry_of(d, f) ==
    IF d.c \in {"W", "F"} THEN 1
    ELSE IF 1 + f - d.n > 2 THEN 2 ELSE IF 1 + f - d.n < 1 THEN 1 ELSE 1 + f - d.n

\* f_k: the free transfers before the k-th directive of the path
RECURSIVE free_before(_, _)
free_before(sid, k) ==
    IF k = 1 THEN num_free_transfers ELSE carry_of(sid[k - 1], free_before(sid, k - 1))

\* the score of the gameweek before the hit: the expected points of the squad
\* the node hands on, as optimize has them computed (with the chip flag of
\* the directive when make_best_transfers scores the squad)
gross_points(node, d, gw) ==
    get_expected_points(node.new_squad, gw, d.c = "T" /\ d.n > 0, d.c = "B" /\ d.n > 0)

recorded_squad(received, players_out, players_in) ==
    IF players_out = << >> /\ players_in = << >> THEN received
    ELSE IF players_out[1].io = "all" THEN <<[n |-> 15, roster |-> players_in]>>
    ELSE Append(received, players_in[1].step)

\* the nodes that are not FreeHit nodes hand a squad to children
handing_on ==
    {it \in frontier : ~it.starting /\ it.num_transfers # FreeHitD
                         /\ node_of(it).depth < num_weeks}

\* C29: for every node other than the root whose directive is not FreeHit,
\* the squad handed to its children is the squad it received with the
\* recorded players_out replaced by the recorded players_in, and the score
\* recorded for the gameweek is computed on that squad; after a Wildcard
\* this is the rebuilt squad.
C29_RecordedTransfersMatchSquad ==
    \A it \in handing_on :
        LET d == it.num_transfers
            node == node_of(it)
            gw == node.depth
            after == recorded_squad(it.squad, node.strat_dict.players_out[gw],
                                    node.strat_dict.players_in[gw])
        IN  /\ \A child \in seq_items(children(node)) : child.squad = after
            /\ node.strat_dict.points_per_gw[gw] + hit_of(d, it.free_transfers)
                  = gross_points([node EXCEPT !.new_squad = after], d, gw)

\* the same for the nodes that are not Wildcard nodes and for their
\* children other than the FreeHit child
RecordedTransfersMatchWithoutRebuild ==
    \A it \in handing_on :
        LET d == it.num_transfers
            node == node_of(it)
            gw == node.depth
            after == recorded_squad(it.squad, node.strat_dict.players_out[gw],
                                    node.strat_dict.players_in[gw])
        IN  d # WildcardD =>
              /\ \A child \in seq_items(children(node)) :
                     child.num_transfers # FreeHitD => child.squad = after
              /\ node.strat_dict.points_per_gw[gw] + hit_of(d, it.free_transfers)
                    = gross_points([node EXCEPT !.new_squad = after], d, gw)

\* C30: every TripleCaptain or BenchBoost directive the tree search puts
\* on the queue, and so every chip directive on the path of a leaf, comes
\* with 0 or 1 transfers, never with 2.
C30_ChipWithAtMostOneTransfer ==
    \A it \in frontier :
        /\ it.num_transfers.c \in {"T", "B"} => it.num_transfers.n \in {0, 1}
        /\ \A k \in 1..Len(it.sid) : it.sid[k].c \in {"T", "B"} => it.sid[k].n \in {0, 1}

(***************************************************************************)
(* The total of a completed record against the discounted sum.             *)
(***************************************************************************)
\* the leaves: the nodes of the items of the last level
leaf_nodes == {node_of(it) : it \in {i \in frontier : ~i.starting /\ level = num_weeks}}

\* the sum of term(k) for k in 1..n
RECURSIVE sum_upto(_, _)
sum_upto(term(_), n) == IF n = 0 THEN 0 ELSE term(n) + sum_upto(term, n - 1)

\* the hit of the k-th gameweek of the path of a node
hit_at(node, k) == hit_of(node.sid[k], free_before(node.sid, k))

\* C31: the total_score of a completed strategy record is the sum over the
\* gameweeks g of the horizon of discount_factor(first gameweek, g) times the
\* expected points of the squad in g, less the hits of the path; a later
\* gameweek weighs strictly less than the first.  The two sides are
\* multiplied by 15^(N-1), the rate being 14/15.
C31_DiscountedTotal ==
    \A node \in leaf_nodes :
        LET n == num_weeks
            expected(k) == node.strat_dict.points_per_gw[k] + hit_at(node, k)
            weighed(k) == expected(k) * get_discount_factor(1, k).num * Pow(15, n - k)
            hit(k) == hit_at(node, k) * Pow(15, n - 1)
        IN  node.strat_dict.total_score * Pow(15, n - 1)
              = sum_upto(weighed, n) - sum_upto(hit, n)


\* the strat_dicts in flight: on the queue, in a worker's hands, and the one a
\* worker has just built from its item
strat_dicts_in_flight ==
    {queue[i].strat_dict : i \in {j \in DOMAIN queue : ~queue[j].starting}}
      \cup {status[w].strat_dict : w \in {v \in Procs : pc[v] = "work" /\ ~status[v].starting}}
      \cup {node_of(status[w]).strat_dict : w \in {v \in Procs : pc[v] = "work"}}

strat_dict_consistent(sd, depth) ==
    LET points(k) == sd.points_per_gw[k]
    IN  /\ DOMAIN sd.points_per_gw = 1..depth
        /\ DOMAIN sd.players_in = 1..depth
        /\ DOMAIN sd.players_out = 1..depth
        /\ DOMAIN sd.cards_played = 1..depth
        /\ sd.total_score = sum_upto(points, depth)

\* C32: at every queue item and every persisted leaf the total_score is the
\* sum of the points_per_gw entries, and points_per_gw, players_in,
\* players_out and cards_played have the same keys, the first `depth`
\* gameweeks of the horizon; a leaf has one entry per gameweek of the
\* horizon in each map.
C32_RecordShape ==
    /\ \A sd \in strat_dicts_in_flight :
          /\ Len(sd.points_per_gw) <= num_weeks
          /\ strat_dict_consistent(sd, Len(sd.points_per_gw))
    /\ \A f \in DOMAIN files :
          /\ Len(f) = num_weeks
          /\ strat_dict_consistent(files[f], num_weeks)

C32_Witness ==
    /\ num_weeks = 2
    /\ \E f \in DOMAIN files : files[f].players_in[2] # << >>
    /\ \E i \in DOMAIN queue : ~queue[i].starting /\ Len(queue[i].strat_dict.points_per_gw) = 1
    /\ C32_RecordShape


(***************************************************************************)
(* get_expected_points called again and again on one squad object: every   *)
(* call leaves its is_starting, is_captain, is_vice_captain and            *)
(* sub_position flags on the players, and the next call starts from them.  *)
(***************************************************************************)
\* the predictions of a call: every player worth 0, or -1, in every
\* gameweek; the steady table; or a table in which one player of the squad
\* is the best in the first gameweek (MaxPoints, the others 2) and worth
\* `low` in the later ones, when the goalkeepers are worth 2, the defender
\* 10 and the midfielder 16 are worth 1 and the other players 4
swing(star, low, weeks) ==
    [id \in PlayerIds |->
        [k \in 1..weeks |->
            IF k = 1 THEN (IF id = star THEN MaxPoints ELSE 2)
            ELSE IF id = star THEN low
            ELSE IF id \in {10, 16} THEN 1
            ELSE IF position_of(id) = "GK" THEN 2 ELSE 4]]

LineupTables(weeks) ==
    {[id \in PlayerIds |-> [k \in 1..weeks |-> all]] : all \in {0, -1}}
      \cup {[id \in PlayerIds |-> steady(id, weeks)]}
      \cup {swing(star, low, weeks) : star \in {9, 16, 20}, low \in {-1, 0, 3}}

LineupInit ==
    /\ env \in {[weeks |-> weeks, points |-> points,
                 price |-> [id \in PlayerIds |-> 1],
                 squad |-> given_squad(0),
                 bench_boost_gw |-> NoGw, triple_captain_gw |-> NoGw] :
                    weeks \in {MaxHorizon}, points \in LineupTables(MaxHorizon)}
    /\ outcome = no_call

\* squad.get_expected_points(gw, tag, bench_boost, triple_captain) on the
\* squad as the calls before left it
CallAgain ==
    /\ outcome.fn \in {"none", "get_expected_points"}
    /\ (IF outcome.fn = "none" THEN 0 ELSE outcome.calls) < MaxCalls
    /\ \E gw \in 1..env.weeks, bench_boost \in BOOLEAN, triple_captain \in BOOLEAN :
         LET result == Squad_get_expected_points(env.squad, gw, bench_boost, triple_captain)
         IN  /\ outcome' = [fn |-> "get_expected_points", self |-> env.squad, gw |-> gw,
                            bench_boost |-> bench_boost, triple_captain |-> triple_captain,
                            result |-> result,
                            calls |-> (IF outcome.fn = "none" THEN 0 ELSE outcome.calls) + 1]
             /\ env' = [env EXCEPT !.squad = result.squad]
    /\ UNCHANGED <<trial, build, notSearch>>

InitLineup ==
    /\ LineupInit /\ trial = [pc |-> "idle"] /\ build = [pc |-> "idle"]
    /\ TreeIdle /\ SquadIdle /\ LevelIdle /\ CallsIdle /\ ApplyIdle

NextLineup == CallAgain

SpecLineup == InitLineup /\ [][NextLineup]_vars

\* a call on a complete squad has returned
scored == outcome.fn = "get_expected_points" /\ outcome.calls >= 1 /\ ~outcome.result.raised

lineup_points(self, j) == env.points[self.players[j].player_id][outcome.gw]

starting(self, pos) ==
    {j \in 1..Len(self.players) : self.players[j].is_starting /\ self.players[j].position = pos}

bench(self) == {j \in 1..Len(self.players) : ~self.players[j].is_starting}

\* C33: after every successful get_expected_points on a complete squad
\* exactly 11 players are starting, exactly 1 of them is a goalkeeper, the
\* outfield split is one of the 7 formations, and the 4 players on the bench
\* have the distinct bench positions 0..3.
C33_LegalLineup ==
    scored =>
        LET self == outcome.result.squad
            split == <<Cardinality(starting(self, "DEF")), Cardinality(starting(self, "MID")),
                       Cardinality(starting(self, "FWD"))>>
        IN  /\ Cardinality({j \in 1..Len(self.players) : self.players[j].is_starting}) = 11
            /\ Cardinality(starting(self, "GK")) = 1
            /\ \E k \in 1..Len(FORMATIONS) : FORMATIONS[k] = split
            /\ Cardinality(bench(self)) = 4
            /\ {self.players[j].sub_position : j \in bench(self)} = 0..3

\* a second call has returned, the bench holding players of equal points and
\* a starter carrying the bench position of an earlier call
C33_Witness ==
    /\ scored
    /\ outcome.calls = 2
    /\ LET self == outcome.result.squad
       IN  /\ \E i, j \in bench(self) :
                i # j /\ lineup_points(self, i) = lineup_points(self, j)
           /\ \E j \in 1..Len(self.players) :
                self.players[j].is_starting /\ self.players[j].sub_position >= 0
    /\ C33_LegalLineup


\* the sum of the predicted points of the players `of` the squad
RECURSIVE points_of(_, _)
points_of(self, of) ==
    IF of = {} THEN 0
    ELSE LET j == CHOOSE i \in of : TRUE
         IN  lineup_points(self, j) + points_of(self, of \ {j})

\* the most that n players of a position can be worth together
most_of(self, pos, n) ==
    LET all == {j \in 1..Len(self.players) : self.players[j].position = pos}
        picks == {some \in SUBSET all : Cardinality(some) = n}
    IN  CHOOSE m \in {points_of(self, some) : some \in picks} :
            \A some \in picks : points_of(self, some) <= m

\* what formation k is worth with the best players of every position, the
\* first-ranked goalkeeper included
worth_of_formation(self, k) ==
    most_of(self, "GK", 1) + most_of(self, "DEF", FORMATIONS[k][1])
        + most_of(self, "MID", FORMATIONS[k][2]) + most_of(self, "FWD", FORMATIONS[k][3])

\* C34: after optimize_subs, for every complete squad and every prediction
\* table (zero or negative predictions included), the starting eleven has
\* the maximal sum of predicted points over the 7 formations, each starting
\* the top-ranked players of every position; among formations of equal sum
\* the latest in enumeration order is the one chosen.
C34_BestFormation ==
    (outcome.fn = "get_expected_points" /\ outcome.calls >= 1) =>
        /\ ~outcome.result.raised
        /\ LET self == outcome.result.squad
               eleven == {j \in 1..Len(self.players) : self.players[j].is_starting}
               split == <<Cardinality(starting(self, "DEF")), Cardinality(starting(self, "MID")),
                          Cardinality(starting(self, "FWD"))>>
           IN  \E k \in 1..Len(FORMATIONS) :
                  /\ FORMATIONS[k] = split
                  /\ points_of(self, eleven) = worth_of_formation(self, k)
                  /\ \A o \in 1..Len(FORMATIONS) :
                        /\ worth_of_formation(self, o) <= worth_of_formation(self, k)
                        /\ worth_of_formation(self, o) = worth_of_formation(self, k) => o <= k

\* the same for the calls that return
BestFormationWhenReturned == scored => C34_BestFormation

\* the same for the first call on a squad, which carries no flags
BestFormationOfFirstCall == (scored /\ outcome.calls = 1) => C34_BestFormation


captains(self) == {j \in 1..Len(self.players) : self.players[j].is_captain}

vice_captains(self) == {j \in 1..Len(self.players) : self.players[j].is_vice_captain}

\* C35: after pick_captains / get_expected_points exactly one player is the
\* captain and exactly one the vice-captain, and they are different players;
\* no player is predicted more than the captain, and no player but the
\* captain more than the vice-captain; among players of equal points the one
\* earlier in squad order is preferred; flags of earlier calls do not
\* survive.
C35_Captaincy ==
    scored =>
        LET self == outcome.result.squad
            all == 1..Len(self.players)
        IN  /\ Cardinality(captains(self)) = 1
            /\ Cardinality(vice_captains(self)) = 1
            /\ captains(self) \cap vice_captains(self) = {}
            /\ \A c \in captains(self), j \in all :
                  /\ lineup_points(self, j) <= lineup_points(self, c)
                  /\ lineup_points(self, j) = lineup_points(self, c) => c <= j
            /\ \A v \in vice_captains(self), j \in all \ captains(self) :
                  /\ lineup_points(self, j) <= lineup_points(self, v)
                  /\ lineup_points(self, j) = lineup_points(self, v) => v <= j

\* a second call has picked another captain than the call before it
C35_Witness ==
    /\ scored
    /\ outcome.calls = 2
    /\ captains(outcome.self) # {}
    /\ captains(outcome.self) # captains(outcome.result.squad)
    /\ vice_captains(outcome.self) # vice_captains(outcome.result.squad)
    /\ C35_Captaincy


\* the squad as its constructor and add_player made it: every player
\* starting, no captain, no vice-captain, no sub_position
without_flags(self) ==
    [self EXCEPT !.players =
        listed([j \in 1..Len(self.players) |->
                  [self.players[j] EXCEPT !.is_starting = TRUE, !.is_captain = FALSE,
                                          !.is_vice_captain = FALSE, !.sub_position = -1]],
               Len(self.players))]

\* C36: get_expected_points returns the same value for the same arguments
\* whatever calls were made before: the lineup and captain flags left on the
\* squad by earlier calls do not influence the result.
C36_HistoryIndependent ==
    (outcome.fn = "get_expected_points" /\ outcome.calls >= 1) =>
        LET first == Squad_get_expected_points(without_flags(outcome.self), outcome.gw,
                                               outcome.bench_boost, outcome.triple_captain)
        IN  /\ outcome.result.raised = first.raised
            /\ ~first.raised => outcome.result.value = first.value

\* calling twice in a row with the same arguments gives the same value
SameValueTwiceInARow ==
    (outcome.fn = "get_expected_points" /\ outcome.calls >= 1) =>
        LET again == Squad_get_expected_points(outcome.result.squad, outcome.gw,
                                               outcome.bench_boost, outcome.triple_captain)
        IN  /\ outcome.result.raised = again.raised
            /\ ~again.raised => outcome.result.value = again.value


(***************************************************************************)
(* Squads as objects.  outcome.heap maps a reference to the squad it       *)
(* names; a Python variable holds a reference; remove_player, add_player   *)
(* and get_expected_points change the object their receiver names.         *)
(***************************************************************************)
\* a reference no object has yet
fresh(heap) == CHOOSE r \in 1..(Cardinality(DOMAIN heap) + 1) : r \notin DOMAIN heap

\* the objects still referenced
kept(heap, live) == [r \in live |-> heap[r]]

\* a fastcopy that hands back the object it was given
fastcopy_same_object(heap, ref) == [heap |-> heap, ref |-> ref]

\* fastcopy(squad) (airsenal.framework.utils, not under src/): a new object,
\* equal to the one copied.  Putting a squad on the queue pickles it, which
\* makes such a copy too.
fastcopy(heap, ref) == [heap |-> (fresh(heap) :> heap[ref]) @@ heap, ref |-> fresh(heap)]

\* best_score = -1 / 0.0 and no best_squad yet
no_best(score) == [best_score |-> score, bound |-> FALSE, best_squad |-> 0]

\* one pass of `for p_out in squad.players` (optimization_utils.py lines
\* 165-200) for the i-th player, on objects
single_pass(heap, squad, best, i) ==
    LET copy == fastcopy(heap, squad)
        p_out == heap[squad].players[i]
        list == get_predicted_points(p_out.position)
        removed == Squad_remove_player(copy.heap[copy.ref], p_out.player_id).squad
        k == first_added(removed, list, {p_out.player_id}, 1)
        swapped == IF k = 0 THEN removed ELSE Squad_add_player(removed, list[k]).squad
        after(total) ==
            [heap |-> [copy.heap EXCEPT ![copy.ref] = IF total.raised THEN swapped
                                                       ELSE total.squad],
             best |-> IF ~total.raised /\ total.total > best.best_score
                      THEN [best_score |-> total.total, bound |-> TRUE,
                            best_squad |-> copy.ref]
                      ELSE best]
    IN  with(horizon_points(swapped, 1), after)

\* one pass of `for i in range(len(squad.players) - 1)` (lines 232-300), on
\* objects: new_squad_remove_1 is a copy of squad, and every squad made from
\* it is a copy of a copy
double_pass(heap, squad, best, i) ==
    LET copy == fastcopy(heap, squad)
        new_squad_remove_1 == copy.ref
        pout_1 == heap[squad].players[i]
        removed_1 == [copy.heap EXCEPT ![new_squad_remove_1] =
                         Squad_remove_player(@, pout_1.player_id).squad]
        start == [no_double_transfer EXCEPT !.best_score = best.best_score]
        new_squad_add_2 == fresh(removed_1)
        after(row) ==
            IF row.bound
            THEN [heap |-> (new_squad_add_2 :> row.best_squad) @@ removed_1,
                  best |-> [best_score |-> row.best_score, bound |-> TRUE,
                            best_squad |-> new_squad_add_2]]
            ELSE [heap |-> removed_1, best |-> best]
    IN  with(double_transfers_row(heap[squad], start, i, i + 1), after)

\* the data: one gameweek, the bank 0 or 2, the goalkeeper 3 at 1 or 3, the
\* forward 4 worth 3 and the forward 21 worth MaxPoints
CopiesData ==
    {e \in SearchData({[k \in 1..1 |-> 3]}, 1) :
        e.triple_captain_gw = NoGw /\ e.points[21][1] = MaxPoints}

root_on_heap == [starting |-> TRUE, num_transfers |-> 0, squad |-> 1, handed |-> env.squad]

\* run_optimization has put the root on the queue (line 454), or
\* make_random_transfers is called with the squad (apply_strategy)
CopiesInit ==
    /\ env \in CopiesData
    /\ \/ outcome = [fn |-> "optimize", pc |-> "poll", heap |-> (1 :> env.squad),
                     queue |-> <<root_on_heap>>]
       \/ outcome = [fn |-> "make_random_transfers", pc |-> "call",
                     heap |-> (1 :> env.squad), squad |-> 1]

refs_on(q) == {q[k].squad : k \in DOMAIN q}

\* optimize, lines 114 and 136: status = queue.get()
CopyGet ==
    /\ outcome.fn = "optimize" /\ outcome.pc = "poll"
    /\ \E k \in {1} \cap DOMAIN outcome.queue :
         LET item == outcome.queue[k]
         IN  outcome' = [fn |-> "optimize",
                         pc |-> IF item.starting THEN "put"
                                ELSE CASE item.num_transfers = 0 -> "zero"
                                       [] item.num_transfers = 1 -> "single"
                                       [] item.num_transfers = 2 -> "double",
                         heap |-> outcome.heap,
                         queue |-> remove_at(outcome.queue, k),
                         status |-> item, new_squad |-> item.squad, i |-> 1,
                         best |-> no_best(IF item.num_transfers = 1 THEN -1 ELSE 0)]
    /\ UNCHANGED <<env, trial, build, notSearch>>

\* optimize, lines 168-184: new_squad = squad, and get_expected_points sets
\* the flags of its players
CopyZero ==
    /\ outcome.fn = "optimize" /\ outcome.pc = "zero"
    /\ outcome' = [outcome EXCEPT
                     !.heap = [@ EXCEPT ![outcome.status.squad] =
                                  Squad_get_expected_points(@, 1, FALSE, FALSE).squad],
                     !.pc = "leaf"]
    /\ UNCHANGED <<env, trial, build, notSearch>>

\* make_optimum_single_transfer, one pass of its loop
CopySinglePass ==
    /\ outcome.fn = "optimize" /\ outcome.pc = "single"
    /\ outcome.i <= Len(outcome.heap[outcome.status.squad].players)
    /\ LET live(best) == {outcome.status.squad} \cup refs_on(outcome.queue)
                           \cup (IF best.bound THEN {best.best_squad} ELSE {})
           after(pass) == [outcome EXCEPT !.heap = kept(pass.heap, live(pass.best)),
                                          !.best = pass.best, !.i = @ + 1]
       IN  outcome' = with(single_pass(outcome.heap, outcome.status.squad, outcome.best,
                                       outcome.i), after)
    /\ UNCHANGED <<env, trial, build, notSearch>>

\* make_optimum_double_transfer, one pass of its outer loop
CopyDoublePass ==
    /\ outcome.fn = "optimize" /\ outcome.pc = "double"
    /\ outcome.i <= Len(outcome.heap[outcome.status.squad].players) - 1
    /\ LET live(best) == {outcome.status.squad} \cup refs_on(outcome.queue)
                           \cup (IF best.bound THEN {best.best_squad} ELSE {})
           after(pass) == [outcome EXCEPT !.heap = kept(pass.heap, live(pass.best)),
                                          !.best = pass.best, !.i = @ + 1]
       IN  outcome' = with(double_pass(outcome.heap, outcome.status.squad, outcome.best,
                                       outcome.i), after)
    /\ UNCHANGED <<env, trial, build, notSearch>>

\* the search returns best_squad; make_best_transfers scores it (lines
\* 495-500) and optimize takes it as new_squad (line 191)
CopySearchReturn ==
    /\ outcome.fn = "optimize"
    /\ \/ outcome.pc = "single" /\ outcome.i > Len(outcome.heap[outcome.status.squad].players)
       \/ outcome.pc = "double"
            /\ outcome.i > Len(outcome.heap[outcome.status.squad].players) - 1
    /\ outcome.best.bound
    /\ outcome' = [outcome EXCEPT
                     !.heap = [@ EXCEPT ![outcome.best.best_squad] =
                                  Squad_get_expected_points(@, 1, FALSE, FALSE).squad],
                     !.new_squad = outcome.best.best_squad,
                     !.pc = "leaf"]
    /\ UNCHANGED <<env, trial, build, notSearch>>

\* optimize, lines 232-238: the children 0, 1, 2 are put on the queue, each
\* put pickling new_squad; then the worker polls again
CopyPut ==
    /\ outcome.fn = "optimize" /\ outcome.pc = "put"
    /\ LET put_0 == fastcopy(outcome.heap, outcome.new_squad)
           put_1 == fastcopy(put_0.heap, outcome.new_squad)
           put_2 == fastcopy(put_1.heap, outcome.new_squad)
           item(n, put) == [starting |-> FALSE, num_transfers |-> n, squad |-> put.ref,
                            handed |-> outcome.heap[outcome.new_squad]]
           children_put == <<item(0, put_0), item(1, put_1), item(2, put_2)>>
       IN  outcome' = [fn |-> "optimize", pc |-> "poll",
                       heap |-> kept(put_2.heap, refs_on(outcome.queue \o children_put)),
                       queue |-> outcome.queue \o children_put]
    /\ UNCHANGED <<env, trial, build, notSearch>>

\* optimize, lines 219-226: the leaf is written; squad and new_squad are
\* dropped at the next queue.get()
CopyLeaf ==
    /\ outcome.fn = "optimize" /\ outcome.pc = "leaf"
    /\ outcome' = [fn |-> "optimize", pc |-> "poll",
                   heap |-> kept(outcome.heap, refs_on(outcome.queue)),
                   queue |-> outcome.queue]
    /\ UNCHANGED <<env, trial, build, notSearch>>

\* make_random_transfers with nsubs = 1, lines 336-361: new_squad =
\* fastcopy(squad), and the player drawn is removed from new_squad
RandomCopyRemove ==
    /\ outcome.fn = "make_random_transfers" /\ outcome.pc = "call"
    /\ \E index \in 1..Len(outcome.heap[outcome.squad].players) :
         LET copy == fastcopy(outcome.heap, outcome.squad)
             p == outcome.heap[outcome.squad].players[index]
         IN  outcome' = [fn |-> "make_random_transfers", pc |-> "while",
                         heap |-> [copy.heap EXCEPT ![copy.ref] =
                                      Squad_remove_player(@, p.player_id).squad],
                         squad |-> outcome.squad, new_squad |-> copy.ref,
                         position |-> p.position, attempt |-> 0]
    /\ UNCHANGED <<env, trial, build, notSearch>>

\* lines 368-397, one pass: a player of the position is drawn and added to
\* new_squad if add_player accepts it; after max_tries failures new_squad =
\* fastcopy(squad)
RandomCopyAttempt ==
    /\ outcome.fn = "make_random_transfers" /\ outcome.pc = "while"
    /\ \E pid_to_add \in {id \in PlayerIds : position_of(id) = outcome.position} :
         LET added == Squad_add_player(outcome.heap[outcome.new_squad], pid_to_add)
             again == fastcopy(outcome.heap, outcome.squad)
         IN  outcome' =
               IF Squad_is_complete(added.squad)
               THEN [outcome EXCEPT !.heap = [@ EXCEPT ![outcome.new_squad] = added.squad],
                                    !.pc = "score"]
               ELSE IF outcome.attempt + 1 > max_tries
               THEN [outcome EXCEPT !.heap = kept(again.heap, {outcome.squad, again.ref}),
                                    !.new_squad = again.ref, !.pc = "score"]
               ELSE [outcome EXCEPT !.attempt = @ + 1]
    /\ UNCHANGED <<env, trial, build, notSearch>>

\* lines 399-420: new_squad is scored, which sets the flags of its players
RandomCopyScore ==
    /\ outcome.fn = "make_random_transfers" /\ outcome.pc = "score"
    /\ outcome' = [fn |-> "make_random_transfers", pc |-> "returned",
                   heap |-> [outcome.heap EXCEPT ![outcome.new_squad] =
                                horizon_points(@, 1).squad],
                   squad |-> outcome.squad, new_squad |-> outcome.new_squad]
    /\ UNCHANGED <<env, trial, build, notSearch>>

InitCopies ==
    /\ CopiesInit /\ trial = [pc |-> "idle"] /\ build = [pc |-> "idle"]
    /\ TreeIdle /\ SquadIdle /\ LevelIdle /\ CallsIdle /\ ApplyIdle

NextCopies ==
    \/ CopyGet
    \/ CopyZero
    \/ CopySinglePass
    \/ CopyDoublePass
    \/ CopySearchReturn
    \/ CopyPut
    \/ CopyLeaf
    \/ RandomCopyRemove
    \/ RandomCopyAttempt
    \/ RandomCopyScore

SpecCopies == InitCopies /\ [][NextCopies]_vars

\* the roster, the position counts and the budget of a squad
holdings(self) ==
    [ids |-> listed([j \in 1..Len(self.players) |-> self.players[j].player_id],
                    Len(self.players)),
     num_position |-> self.num_position, budget |-> self.budget]

\* C37: the single, double and random searches leave the roster, the
\* position counts and the budget of the squad they are given unchanged, and
\* a squad handed to one child of a tree node is never changed by the
\* processing of a sibling or of any other branch.
C37_BranchIsolation ==
    /\ (outcome.fn = "optimize" /\ outcome.pc # "poll") =>
          holdings(outcome.heap[outcome.status.squad]) = holdings(outcome.status.handed)
    /\ outcome.fn = "optimize" =>
          \A k \in DOMAIN outcome.queue :
              outcome.heap[outcome.queue[k].squad] = outcome.queue[k].handed
    /\ outcome.fn = "make_random_transfers" =>
          holdings(outcome.heap[outcome.squad]) = holdings(env.squad)

\* a search has returned a squad with another roster while a sibling waits
\* on the queue
C37_Witness ==
    /\ outcome.fn = "optimize" /\ outcome.pc = "leaf"
    /\ outcome.status.num_transfers \in {1, 2}
    /\ outcome.queue # << >>
    /\ holdings(outcome.heap[outcome.new_squad]) # holdings(outcome.status.handed)
    /\ C37_BranchIsolation


(***************************************************************************)
(* apply_strategy called with a baseline: the cumulative score of the      *)
(* strategy of no transfers (21, 43, 66 on the prediction data), or that   *)
(* curve raised by 1 or 2 points, and by 0 or 1 more in every later        *)
(* gameweek.                                                               *)
(***************************************************************************)
BaselineCurves ==
    {[g \in 1..MaxWeeks |-> sum_values([k \in 1..MaxWeeks |-> 20 + k], g)
                               + above + more * (g - 1)] :
        above \in {1, 2}, more \in {0, 1}}

BaselineInit ==
    /\ strat \in [dict : Plans, hit : {0, 4}]
    /\ list_value_raises = FALSE
    /\ baseline_dict \in {None} \cup {[none |-> FALSE, curve |-> curve] : curve \in BaselineCurves}
    /\ apc = "loop"
    /\ igw = 1
    /\ new_squad = starting_squad
    /\ squad_before_free_hit = None
    /\ rp = Unbound
    /\ ap = Unbound
    /\ strategy_output = [empty_strat_dict EXCEPT !.total_score = -1 * strat.hit]
    /\ applied = << >>
    /\ returned = None

InitBaseline ==
    /\ BaselineInit /\ PredictionsInit /\ gain = 3
    /\ SquadIdle /\ LevelIdle /\ CallsIdle /\ SearchIdle

NextBaseline ==
    \/ ApplyGameweek
    \/ ApplyReturn

SpecBaseline == InitBaseline /\ [][NextBaseline]_vars

\* the running total after the first k gameweeks recorded
running_total(k) ==
    LET score(j) == strategy_output.points_per_gw[j]
    IN  sum_upto(score, k) - strat.hit

\* C38: with a baseline curve, apply_strategy stops at the first gameweek g
\* where baseline[g] minus the running total is more than 5 (exactly 5 does
\* not stop); no later gameweek is evaluated, and the record returned has no
\* points_per_gw, players_in, players_out or cards_played entry for g or any
\* later gameweek.  Without a baseline every gameweek is evaluated.
C38_EarlyAbort ==
    apc = "returned" =>
        LET n == Len(strategy_output.points_per_gw)
            g == n + 1
        IN  /\ returned = strategy_output
            /\ \A field \in {"points_per_gw", "players_in", "players_out", "cards_played"} :
                  DOMAIN returned[field] = 1..n
            /\ \A k \in 1..n :
                  baseline_dict = None \/ baseline_dict.curve[k] - running_total(k) <= 5
            /\ IF n = Len(strat.dict)
               THEN Len(applied) = n
               ELSE /\ baseline_dict # None
                    /\ baseline_dict.curve[g] - strategy_output.total_score > 5
                    /\ strategy_output.total_score - running_total(n) \in 20..40
                    /\ Len(applied) = g
                    /\ applied[g].gw = g

\* the evaluation was stopped at the second gameweek, after a first gameweek
\* that was exactly 5 points below the baseline
C38_Witness ==
    /\ apc = "returned"
    /\ Len(strat.dict) = 3
    /\ Len(returned.points_per_gw) = 1
    /\ baseline_dict # None
    /\ baseline_dict.curve[1] - running_total(1) = 5
    /\ C38_EarlyAbort


\* the leaf of no transfers in any gameweek, "0-0-...-0"
all_zero_sid == [k \in 1..num_weeks |-> Int_(0)]

\* C39: after a complete run the total score of the best strategy is at
\* least the score of the all-zero leaf that serves as the baseline, so the
\* points_gain written to the suggestion table is never negative.
C39_NonNegativeGain ==
    /\ (cpc \in {"fill", "filled"} /\ best_strategy # None /\ all_zero_sid \in DOMAIN files) =>
          best_strategy.total_score >= files[all_zero_sid].total_score
    /\ cpc = "filled" =>
          /\ table.points_gain >= 0
          /\ table.points_gain
               = table.best_strat.total_score
                   - (IF all_zero_sid \in DOMAIN files THEN files[all_zero_sid].total_score
                      ELSE 0)

\* a run of two gameweeks or more has filled the table with a strategy that
\* beats the baseline, a leaf below the baseline being among the files
C39_Witness ==
    /\ cpc = "filled"
    /\ num_weeks >= 2
    /\ all_zero_sid \in DOMAIN files
    /\ table.points_gain > 0
    /\ \E f \in DOMAIN files : files[f].total_score < files[all_zero_sid].total_score
    /\ C39_NonNegativeGain


(***************************************************************************)
(* get_starting_squad: the transactions table replayed in id order.  The   *)
(* table holds the purchase of the first squad (here its goalkeepers 1 and *)
(* 2) and then, gameweek after gameweek, the sale and the purchase of each *)
(* transfer, recorded in either order and flagged when made on a free hit. *)
(***************************************************************************)
Row(player_id, bought_or_sold, free_hit) ==
    [player_id |-> player_id, bought_or_sold |-> bought_or_sold, price |-> 1,
     free_hit |-> free_hit]

\* the players whose most recent transaction that is not a free-hit one is a
\* purchase
recent_purchases(log) ==
    {id \in PlayerIds :
        LET rows == {k \in DOMAIN log : log[k].player_id = id /\ log[k].free_hit = 0}
        IN  rows # {} /\ log[CHOOSE k \in rows : \A o \in rows : o <= k].bought_or_sold = 1}

\* the rows of one transfer, the sale first or the purchase first
TransferRows(sale, purchase, free_hit) ==
    {<<Row(sale, -1, free_hit), Row(purchase, 1, free_hit)>>,
     <<Row(purchase, 1, free_hit), Row(sale, -1, free_hit)>>}

RECURSIVE Logs(_)
Logs(n) ==
    IF n = 0 THEN {<<Row(1, 1, 0), Row(2, 1, 0)>>}
    ELSE LET shorter == Logs(n - 1)
             transfers(log) ==
                 UNION {TransferRows(sale, purchase, free_hit) :
                           sale \in recent_purchases(log),
                           purchase \in {1, 2, 3} \ recent_purchases(log),
                           free_hit \in {0, 1}}
         IN  shorter \cup UNION {{log \o rows : rows \in transfers(log)} : log \in shorter}

\* s.add_player(trans.player_id, price=trans.price, season=..., gameweek=...,
\* check_budget=False, check_team=False): [ok, squad]
Squad_add_player_at(self, id, price) ==
    LET cand == new_candidate(id)
        player == IF price # 0 THEN [cand EXCEPT !.purchase_price = price] ELSE cand
        ok == /\ \A i \in 1..Len(self.players) : self.players[i].player_id # id
              /\ self.num_position[player.position] < TOTAL_PER_POSITION[player.position]
    IN  IF ok
        THEN [ok |-> TRUE,
              squad |-> [players |-> Append(self.players, player),
                         budget |-> self.budget - player.purchase_price,
                         num_position |-> [self.num_position EXCEPT ![player.position] = @ + 1]]]
        ELSE [ok |-> FALSE, squad |-> self]

\* s.remove_player(trans.player_id, price=trans.price): [ok, squad]
Squad_remove_player_at(self, player_id, price) ==
    LET sold_at == Squad_remove_player(self, player_id)
    IN  IF ~sold_at.ok \/ price = 0 THEN sold_at
        ELSE [sold_at EXCEPT !.squad.budget = self.budget + price]

ReplayInit ==
    /\ env \in {[transactions |-> log, price |-> [id \in PlayerIds |-> 1]] :
                   log \in Logs(MaxTransfers)}
    /\ outcome = [fn |-> "get_starting_squad", pc |-> "call"]

\* lines 74-78: s = Squad(), and the rows with free_hit = 0, ordered by id
ReplayQuery ==
    /\ outcome.fn = "get_starting_squad" /\ outcome.pc = "call"
    /\ LET no_free_hit(trans) == trans.free_hit = 0
       IN  outcome' = [fn |-> "get_starting_squad", pc |-> "loop", s |-> Squad(1000),
                       transactions |-> SelectSeq(env.transactions, no_free_hit), k |-> 1]
    /\ UNCHANGED <<env, trial, build, notSearch>>

\* lines 79-92, one row
ReplayTransaction ==
    /\ outcome.fn = "get_starting_squad" /\ outcome.pc = "loop"
    /\ outcome.k <= Len(outcome.transactions)
    /\ LET trans == outcome.transactions[outcome.k]
       IN  outcome' = [outcome EXCEPT
                         !.s = IF trans.bought_or_sold = -1
                               THEN Squad_remove_player_at(@, trans.player_id, trans.price).squad
                               ELSE Squad_add_player_at(@, trans.player_id, trans.price).squad,
                         !.k = @ + 1]
    /\ UNCHANGED <<env, trial, build, notSearch>>

\* line 93: return s
ReplayReturn ==
    /\ outcome.fn = "get_starting_squad" /\ outcome.pc = "loop"
    /\ outcome.k > Len(outcome.transactions)
    /\ outcome' = [fn |-> "get_starting_squad", pc |-> "returned", s |-> outcome.s]
    /\ UNCHANGED <<env, trial, build, notSearch>>

InitReplay ==
    /\ ReplayInit /\ trial = [pc |-> "idle"] /\ build = [pc |-> "idle"]
    /\ TreeIdle /\ SquadIdle /\ LevelIdle /\ CallsIdle /\ ApplyIdle

NextReplay ==
    \/ ReplayQuery
    \/ ReplayTransaction
    \/ ReplayReturn

SpecReplay == InitReplay /\ [][NextReplay]_vars

\* what the purchases and sales of the players held have cost
spent_on(log) ==
    LET rows == {k \in DOMAIN log : log[k].free_hit = 0}
        paid(k) == IF k \in rows THEN log[k].bought_or_sold * log[k].price ELSE 0
    IN  sum_upto(paid, Len(log))

\* C40: for any transaction log processed in id order, get_starting_squad
\* returns a roster equal to the set of players whose most recent
\* non-free-hit transaction is a purchase, whatever the relative order of a
\* gameweek's purchases and sales in the log, and the transactions flagged as
\* free hit change neither the roster nor the budget.
C40_LogReplay ==
    (outcome.fn = "get_starting_squad" /\ outcome.pc = "returned") =>
        /\ roster(outcome.s) = recent_purchases(env.transactions)
        /\ outcome.s.budget = 1000 - spent_on(env.transactions)

\* every sale is recorded before the purchase that replaces the player: the
\* first of the two rows of every transfer is the sale
sales_first(log) ==
    \A k \in DOMAIN log : (k > 2 /\ k % 2 = 1) => log[k].bought_or_sold = -1

\* the same for the logs that record every sale before its purchase
LogReplaySalesFirst == sales_first(env.transactions) => C40_LogReplay

\* the free-hit rows change nothing: the squad returned is the one returned
\* for the log without them
RECURSIVE replayed(_, _, _)
replayed(log, self, k) ==
    IF k > Len(log) THEN self
    ELSE replayed(log,
                  IF log[k].bought_or_sold = -1
                  THEN Squad_remove_player_at(self, log[k].player_id, log[k].price).squad
                  ELSE Squad_add_player_at(self, log[k].player_id, log[k].price).squad,
                  k + 1)

FreeHitRowsIgnored ==
    (outcome.fn = "get_starting_squad" /\ outcome.pc = "returned") =>
        LET no_free_hit(trans) == trans.free_hit = 0
        IN  outcome.s = replayed(SelectSeq(env.transactions, no_free_hit), Squad(1000), 1)

====
